---- MODULE Spec2Model ----
(***************************************************************************)
(* A model of the zuke test execution engine: the runner                   *)
(* (runner/standard.rs), the contexts and their finalize (context.rs),     *)
(* the fixture sets (fixture.rs), the outcomes and verdicts (outcome.rs)   *)
(* and the cancellation race around step bodies (zuke-macros utils.rs).    *)
(***************************************************************************)
EXTENDS Integers, Sequences, FiniteSets, TLC

(***************************************************************************)
(* Verdict (outcome.rs:58-78): derive(PartialOrd, Ord) orders the variants *)
(* by declaration, so a verdict is its rank.                               *)
(***************************************************************************)
Undecided == 0
Excluded == 1
Skipped == 2
Passed == 3
PassedWithWarnings == 4
ExpectedFailure == 5
UnexpectedPass == 6
Failed == 7
Canceled == 8

passed(v) == v \in {Passed, PassedWithWarnings, ExpectedFailure}

skipped(v) == v \in {Excluded, Skipped}

failed(v) == v \in {UnexpectedPass, Failed, Canceled}

(***************************************************************************)
(* Results of user callbacks: Ok, an ordinary error, or a StepError that   *)
(* carries a verdict (step.rs:13-19 and its constructors).                 *)
(***************************************************************************)
Ok == [ok |-> TRUE, step |-> FALSE, v |-> Passed, panic |-> FALSE]

PlainErr == [ok |-> FALSE, step |-> FALSE, v |-> Failed, panic |-> FALSE]

StepError(v) == [ok |-> FALSE, step |-> TRUE, v |-> v, panic |-> FALSE]

cancel == StepError(Canceled)

skip == StepError(Skipped)

\* A callback that panics instead of returning.
Panic == [ok |-> FALSE, step |-> FALSE, v |-> Failed, panic |-> TRUE]

\* PanicToError: catch_unwind, and the payload made an ordinary error
\* (panic.rs:62-84); a returned result passes through.
PanicToError(r) == IF r.panic THEN PlainErr ELSE r

\* What the user callbacks of the model may return.  The body of a step, a
\* before or after callback and a teardown are each called under
\* PanicToError (vocab.rs:133, utils.rs:87-89, fixture.rs:173-183), so that
\* their panic is the ordinary error these sets contain.  T::setup is called
\* bare (fixture.rs:372): its panic unwinds through FixtureSet::activate.
StepResults == {PanicToError(r) : r \in {Ok, PlainErr, Panic}}

HookResults == {PanicToError(r) : r \in {Ok, PlainErr, Panic}}

SetupResults == {Ok, PlainErr, Panic}

\* A StepError may be returned from any callback (step.rs:7-12): the
\* teardown of the model may skip.
TeardownResults == {PanicToError(r) : r \in {Ok, PlainErr, Panic, skip}}

(***************************************************************************)
(* Outcome transitions (outcome.rs).                                       *)
(***************************************************************************)
set_err_always_failed(e) == Failed

set_err(e) == IF e.step THEN e.v ELSE Failed

set_result(r) == IF r.ok THEN Passed ELSE set_err(r)

with_parent_of_decided(excl, pv) ==
    IF excl THEN Excluded
    ELSE IF pv \in {Undecided, Passed, PassedWithWarnings} THEN Undecided
    ELSE IF pv = Excluded THEN Excluded
    ELSE Skipped

with_parent(excl, pv) ==
    IF excl THEN Excluded
    ELSE IF pv = Undecided THEN Undecided
    ELSE IF pv = Excluded THEN Excluded
    ELSE Skipped

add_child(pv, cv) == IF cv > pv THEN cv ELSE pv

(***************************************************************************)
(* The feature file of the run: f1 holds the rule r1 (scenario s2) and the *)
(* scenario s1.                                                            *)
(***************************************************************************)
G == "g"

Features == {"f1"}

Rules == {"r1"}

Scenarios == {"s1", "s2"}

Tasks == {G} \cup Features \cup Rules \cup Scenarios

NoTask == "none"

parent == [f1 |-> G, r1 |-> "f1", s1 |-> "f1", s2 |-> "r1"]

KidsOf(t) == {u \in Tasks \ {G} : parent[u] = t}

feature_of(t) == IF t \in Features THEN t ELSE IF parent[t] \in Features THEN parent[t] ELSE parent[parent[t]]

\* The steps of a scenario: the steps of the feature's background, then its
\* own (component.rs:271-326).  s1 has NumSteps steps of its own, s2 none.
NumBackground == 1

NumSteps == 1

StepsOf(s) == NumBackground + (IF s = "s1" THEN NumSteps ELSE 0)

StepIds == 1..(NumBackground + NumSteps)

\* A component is <<task, 0>>, a step of scenario s is <<s, i>>.
C(t) == <<t, 0>>

Steps == {c \in Scenarios \X StepIds : c[2] <= StepsOf(c[1])}

Comps == (Tasks \X {0}) \cup Steps

(***************************************************************************)
(* Fixture types, one per scope (fixture.rs:30-37), and the fixture sets:  *)
(* one per global, feature and scenario context (context.rs:48,68,114),    *)
(* named by the component that owns it.                                    *)
(***************************************************************************)
Types == {"TG", "TF", "TS"}

SetIds == {G} \cup Features \cup Scenarios

\* The fixtures a step body may use_fixture.
StepFixtures == {"TF", "TS"}

\* Context::use_fixture's choice of the set by T::SCOPE (context.rs:326-330)
set_for(T, t) == IF T = "TG" THEN G ELSE IF T = "TF" THEN feature_of(t) ELSE t

\* TestOptions: the names the include and the exclude patterns match;
\* all = no include pattern was given (options.rs:53-60).
OptionSets ==
    { [all |-> TRUE, inc |-> {}, exc |-> {}],
      [all |-> TRUE, inc |-> {}, exc |-> {"s2"}],
      [all |-> FALSE, inc |-> {"s1"}, exc |-> {}] }

VARIABLES
    pc,         \* where each task of the runner is
    verdict,    \* the verdict of each component's outcome
    events,     \* how often Started(c) and Finished(c) were broadcast
    features,   \* the features the parser has not yet delivered
    options,    \* the TestOptions of the run
    fixtures,   \* FixtureSet: the state of each type's entry
    tx,         \* whether the sender of a Pending entry's channel is alive
    lock,       \* the task holding a set's upgradable read lock
    canceled,   \* the cancellation flag
    cur,        \* a scenario's current step and what its body is doing
    setups,     \* history: calls of T::setup per set
    teardowns,  \* history: calls of T::teardown per set
    accessed,   \* history: the fixtures each scenario's steps incremented
    observed,   \* history: the counter a teardown saw
    stepDisp,   \* history: the flag at each step's dispatch
    invoked,    \* history: the before/after callbacks invoked
    visited,    \* history: the sets each before/after_hooks call visited
    flagBetween, \* history: the steps that were next to dispatch at set()
    vocab,      \* Vocab: the registered step implementations
    dispatched, \* the last step Vocab::execute was given, and what it did
    call,       \* the Context call a user callback has just made
    held,       \* the fixture a step body holds a mutable reference to
    derived,    \* the components derived so far, with their flags
    late,       \* the last verdict computed at the end of a component
    tagged,     \* the tags last asked of a component, with the tags of its file
    evald,      \* the last tag expression a hook was gated by, and how it evaluated
    hooked,     \* HookRunner: the registered hook functions, its bins and the calls made
    flag,       \* Flag: its sender, and the tasks that set it or wait for it
    top,        \* Zuke::run: what its runner and reporters returned, and its result
    stepped,    \* the outcome run_step last finished a step with
    fin,        \* OpenContext::finalize of one context, step by step
    act         \* FixtureSet::activate of one fixture type by concurrent callers

vars == <<pc, verdict, events, features, options, fixtures, tx, lock,
          canceled, cur, setups, teardowns, accessed, observed,
          stepDisp, invoked, visited, flagBetween, vocab, dispatched, call, held,
          derived,
          late,
          tagged,
          evald,
          hooked,
          flag,
          top,
          stepped,
          fin,
          act>>

\* The state of the parts that are modelled on their own, beside the runner.
auxvars == <<derived, late, tagged, evald, hooked, flag, top, stepped, fin, act>>

\* The parts beside derived
rest_derived == <<late, tagged, evald, hooked, flag, top, stepped, fin, act>>

\* The parts beside late
rest_late == <<derived, tagged, evald, hooked, flag, top, stepped, fin, act>>

\* The parts beside tagged
rest_tagged == <<derived, late, evald, hooked, flag, top, stepped, fin, act>>

\* The parts beside evald
rest_evald == <<derived, late, tagged, hooked, flag, top, stepped, fin, act>>

\* The parts beside hooked
rest_hooked == <<derived, late, tagged, evald, flag, top, stepped, fin, act>>

\* The parts beside flag
rest_flag == <<derived, late, tagged, evald, hooked, top, stepped, fin, act>>

\* The parts beside top
rest_top == <<derived, late, tagged, evald, hooked, flag, stepped, fin, act>>

\* The parts beside stepped
rest_stepped == <<derived, late, tagged, evald, hooked, flag, top, fin, act>>

\* The parts beside fin
rest_fin == <<derived, late, tagged, evald, hooked, flag, top, stepped, act>>

\* The parts beside act
rest_act == <<derived, late, tagged, evald, hooked, flag, top, stepped, fin>>

fixvars == <<fixtures, tx, lock, setups>>

\* No step was dispatched yet; no Context call was just made.
NoDispatch == [step |-> <<>>, err |-> "none", ran |-> {}, v |-> Undecided]

NoCall == [api |-> "none"]

\* No component was derived yet.
NoComponents == [opts |-> [inc |-> {}, exc |-> {}], made |-> {}, inc |-> {}, exc |-> {}]

\* No verdict was computed yet.
NoLate == [t |-> NoTask, v0 |-> Undecided, r |-> Ok, kids |-> {}, fin |-> Undecided, out |-> Undecided]

\* No component was asked for its tags yet.
NoTags == [c |-> <<NoTask, 0>>, feature |-> <<>>, rule |-> <<>>, scenario |-> <<>>,
           tags |-> <<>>, uninherited |-> <<>>]

\* No tag expression was evaluated yet.
NoEval == [expr |-> <<>>, ops |-> <<>>, c |-> <<NoTask, 0>>, tags |-> <<>>, uninherited |-> <<>>,
           panic |-> FALSE, len |-> 0, result |-> FALSE, stack |-> <<>>, fired |-> FALSE]

\* No hook function is registered and the HookRunner is not set up.
NoHooks == [inventory |-> <<>>, built |-> FALSE, before |-> {}, after |-> {}, calls |-> <<>>]

\* Flag::new: the channel's only sender is in the Option; nobody has called
\* set or wait.
NewFlag == [send |-> TRUE, setters |-> {}, waiting |-> {}, early |-> {}, woken |-> {}]

\* Zuke::run was not called yet.
NoRun == [done |-> FALSE, fail |-> <<NoTask, 0>>, event |-> "none", persists |-> FALSE,
          execute |-> "Ok", reporters |-> <<>>, result |-> "Ok", from |-> 0]

\* No step was run yet.
NoStep == [done |-> FALSE, parent |-> Undecided, excluded |-> FALSE, result |-> Ok,
           started |-> Undecided, verdict |-> Undecided]

\* The tasks that call activate::<T> on one set
Callers == {"a", "b", "c"}

\* Nobody has activated the fixture yet.
NoActivation == [entry |-> "Absent", tx |-> FALSE,
                 pc |-> [k \in Callers |-> "idle"],
                 ret |-> [k \in Callers |-> "none"],
                 at |-> [k \in Callers |-> "none"]]

\* finalize was not called yet.
NoFinalize == [stage |-> "idle", kind |-> "Global", sets |-> {}, at |-> 1, torn |-> {},
               calls |-> {}, errs |-> {}, v |-> Undecided, included |-> TRUE,
               shared |-> FALSE]

histvars == <<teardowns, accessed, observed, stepDisp, invoked, visited, flagBetween>>

(***************************************************************************)
(* Component selection (component.rs:186-250).                             *)
(***************************************************************************)
AncSelf(t) == IF t = G THEN {} ELSE IF parent[t] = G THEN {t} ELSE IF parent[parent[t]] = G THEN {t, parent[t]} ELSE {t, parent[t], parent[parent[t]]}

is_included(t) == \E u \in AncSelf(t) : options.all \/ u \in options.inc

is_excluded(t) == \E u \in AncSelf(t) : u \in options.exc

Init ==
    /\ pc = [t \in Tasks |-> IF t = G THEN "start" ELSE "idle"]
    /\ verdict = [c \in Comps |-> Undecided]
    /\ events = [started |-> [c \in Comps |-> 0], finished |-> [c \in Comps |-> 0]]
    /\ features = Features
    /\ options \in OptionSets
    /\ fixtures = [S \in SetIds |-> [T \in Types |-> "Absent"]]
    /\ tx = [S \in SetIds |-> [T \in Types |-> FALSE]]
    /\ lock = [S \in SetIds |-> NoTask]
    /\ canceled = FALSE
    /\ cur = [s \in Scenarios |-> [i |-> 1, T |-> "none"]]
    /\ setups = [S \in SetIds |-> [T \in Types |-> 0]]
    /\ teardowns = [S \in SetIds |-> [T \in Types |-> 0]]
    /\ accessed = [s \in Scenarios |-> {}]
    /\ observed = [S \in SetIds |-> [T \in Types |-> -1]]
    /\ stepDisp = [c \in Steps |-> "no"]
    /\ invoked = {}
    /\ visited = [t \in Tasks |-> [before |-> <<>>, after |-> <<>>]]
    /\ flagBetween = {}
    /\ vocab = [steps |-> <<>>, built |-> FALSE]
    /\ dispatched = NoDispatch
    /\ call = NoCall
    /\ held = [s \in Scenarios |-> "none"]
    /\ derived = NoComponents
    /\ late = NoLate
    /\ tagged = NoTags
    /\ evald = NoEval
    /\ hooked = NoHooks
    /\ flag = NewFlag
    /\ top = NoRun
    /\ stepped = NoStep
    /\ fin = NoFinalize
    /\ act = NoActivation

\* A step of the runner: the callback that made the last Context call has
\* returned; the step registry is not touched.
EngineStep == call' = NoCall /\ UNCHANGED <<vocab, dispatched, auxvars>>

Started(ev, c) == [ev EXCEPT !.started[c] = @ + 1]

Finished(ev, c) == [ev EXCEPT !.finished[c] = @ + 1]

\* A panic unwinds through the futures that await the panicking one: an
\* ancestor that panicked has dropped the futures of its descendants.
Ancestors(t) == (AncSelf(t) \ {t}) \cup (IF t = G THEN {} ELSE {G})

Alive(t) == \A u \in Ancestors(t) : pc[u] # "panicked"

(***************************************************************************)
(* OpenContext::before_hooks / after_hooks (context.rs:127-162) over       *)
(* FixtureSet::for_each_fixture (fixture.rs:376-409).                      *)
(***************************************************************************)
\* The entry FixtureSet::activate leaves when T::setup ended with r
\* (fixture.rs:303-319): the Pending entry it inserted is replaced only when
\* create_fixture returns.
after_setup(r) == IF r.ok THEN "Ready" ELSE IF r.panic THEN "Pending" ELSE "Failed"

\* for_each_fixture calling back every entry that is not Failed
ReadyOrPendingIn(S) == {T \in Types : fixtures[S][T] \in {"Ready", "Pending"}}

ReadyIn(S) == {T \in Types : fixtures[S][T] = "Ready"}

\* before_hooks visiting the sets in the order of after_hooks
before_order_swapped(t) ==
    IF t = G THEN <<G>>
    ELSE IF t \in Scenarios THEN <<t, feature_of(t), G>>
    ELSE <<feature_of(t), G>>

before_order(t) ==
    IF t = G THEN <<G>>
    ELSE IF t \in Scenarios THEN <<G, feature_of(t), t>>
    ELSE <<G, feature_of(t)>>

after_order(t) ==
    IF t = G THEN <<G>>
    ELSE IF t \in Scenarios THEN <<t, feature_of(t), G>>
    ELSE <<feature_of(t), G>>

Range(q) == {q[k] : k \in DOMAIN q}

\* The results the callbacks of each visited set return: a set without a
\* Ready entry calls nothing.
HookChoices(order) ==
    {rs \in [Range(order) -> HookResults] :
        \A S \in Range(order) : ReadyIn(S) = {} => rs[S] = Ok}

RECURSIVE HookVerdict(_, _, _)
HookVerdict(v, order, rs) ==
    IF order = <<>> THEN v
    ELSE HookVerdict(IF rs[Head(order)].ok THEN v ELSE set_err(rs[Head(order)]),
                     Tail(order), rs)

Invocations(when, t, order) ==
    {<<when, t, S, T>> : S \in Range(order), T \in Types} \cap
    {x \in {when} \X {t} \X SetIds \X Types : x[4] \in ReadyIn(x[3])}

RECURSIVE MaxVerdict(_, _)
MaxVerdict(v, kids) ==
    IF kids = {} THEN v
    ELSE LET k == CHOOSE k \in kids : TRUE
         IN MaxVerdict(add_child(v, verdict[C(k)]), kids \ {k})

(***************************************************************************)
(* StandardRunner::execute up to its feature loop (standard.rs:50-67).     *)
(* The builder registers use_fixture::<HookRunner> as a pre-test hook      *)
(* (top.rs), so the global set always gets one activation.                 *)
(***************************************************************************)
ExecuteStart ==
    /\ EngineStep /\ UNCHANGED held
    /\ pc[G] = "start"
    /\ \E r \in SetupResults :
        LET st == after_setup(r)
            v == IF r.ok THEN verdict[C(G)] ELSE set_err(PlainErr)
        IN /\ fixtures' = [fixtures EXCEPT ![G]["TG"] = st]
           /\ \E h \in HookResults :
                /\ ~r.ok => h = Ok
                /\ verdict' = [verdict EXCEPT ![C(G)] = IF h.ok THEN v ELSE set_err(h)]
           /\ invoked' = invoked \cup (IF r.ok THEN {<<"before", G, G, "TG">>} ELSE {})
    /\ setups' = [setups EXCEPT ![G]["TG"] = @ + 1]
    /\ events' = Started(events, C(G))
    /\ visited' = [visited EXCEPT ![G].before = before_order(G)]
    /\ pc' = [pc EXCEPT ![G] = "run"]
    /\ UNCHANGED <<features, options, tx, lock, canceled, cur,
                   teardowns, accessed, observed, stepDisp, flagBetween>>

\* execute's select loop taking a feature off the channel (standard.rs:74-78)
ReceiveFeature(f) ==
    /\ EngineStep /\ UNCHANGED held
    /\ pc[G] = "run"
    /\ f \in features
    /\ features' = features \ {f}
    /\ pc' = [pc EXCEPT ![f] = "start"]
    /\ UNCHANGED <<verdict, events, options, fixvars, canceled, cur, histvars>>

\* run_feature / run_rule / run_scenario with scenario_worker, through
\* before_hooks and the derivation of the child contexts
\* (standard.rs:107-127, 155-168, 192-218; context.rs:77-118, 127-143)
Begin(t) ==
    /\ EngineStep /\ UNCHANGED held
    /\ t # G
    /\ pc[t] = "start"
    /\ Alive(t)
    /\ \E rs \in HookChoices(before_order(t)) :
        LET v0 == IF t \in Scenarios /\ ~is_included(t) THEN Excluded ELSE verdict[C(t)]
            v == HookVerdict(v0, before_order(t), rs)
        IN verdict' = [c \in Comps |->
                          IF c = C(t) THEN v
                          ELSE IF c[2] = 0 /\ c[1] \in KidsOf(t)
                               THEN with_parent(is_excluded(c[1]), v)
                          ELSE verdict[c]]
    /\ events' = Started(events, C(t))
    /\ pc' = [u \in Tasks |->
                 IF u = t THEN (IF t \in Scenarios THEN "step" ELSE "run")
                 ELSE IF u \in KidsOf(t) THEN "start"
                 ELSE pc[u]]
    /\ invoked' = invoked \cup Invocations("before", t, before_order(t))
    /\ visited' = [visited EXCEPT ![t].before = before_order(t)]
    /\ UNCHANGED <<features, options, fixvars, canceled, cur,
                   teardowns, accessed, observed, stepDisp, flagBetween>>

\* A task that goes on without awaiting the futures of its children
ChildrenNotAwaited(t) == t = G => features = {}

\* The children a task awaits are all complete.
\* after_hooks entered without awaiting the children
ChildrenDone_unawaited(t) ==
    t = G => features = {}

ChildrenDone(t) ==
    /\ t = G => features = {}
    /\ \A u \in KidsOf(t) : pc[u] = "done"

\* Contexts that keep their clones after finalize
handles_kept(S) == {u \in Tasks : S \in Range(before_order(u)) /\ pc[u] \notin {"idle", "panicked"}}

\* The contexts that hold a clone of the Arc of set S (context.rs:67-68,
\* 89-90, 112-114); finalize takes them out (context.rs:203-221).
handles(S) == {u \in Tasks : S \in Range(before_order(u)) /\ pc[u] \notin {"idle", "done", "panicked"}}

\* The counter of a fixture: the scenarios whose steps incremented it.
counter(S, T) == Cardinality({s \in Scenarios : T \in accessed[s] /\ set_for(T, s) = S})

\* The outcome after after_hooks with the results rs and, for a feature or a
\* rule, add_child of the collected outcomes (context.rs:146-162,
\* standard.rs:140-143, 177-180)
after_verdict(t, rs) ==
    LET va == HookVerdict(verdict[C(t)], after_order(t), rs)
    IN IF t \in Features \cup Rules THEN MaxVerdict(va, KidsOf(t)) ELSE va

\* The results the teardown of t's set may return: Ok when nothing is Ready.
TeardownChoices(t) ==
    {r \in TeardownResults : (t \notin SetIds \/ ReadyIn(t) = {}) => r = Ok}

\* OpenContext::finalize on the outcome v0 with the teardown's result r:
\* set_err, then the late evaluation of inclusion (context.rs:186-193,
\* 230-239)
finalize(t, v0, r) ==
    LET v1 == IF r.ok THEN v0 ELSE set_err(r)
    IN IF v1 = Undecided THEN (IF is_included(t) THEN Passed ELSE Excluded) ELSE v1

\* finalize panics: the set of t's level has another handle (context.rs:
\* 187-188) or an entry that is Pending (fixture.rs:339-341).
teardown_panics(t) ==
    t \in SetIds /\ (handles(t) # {t} \/ \E T \in Types : fixtures[t][T] = "Pending")

\* The verdict t finishes with; execute adds the features after finalize
\* (standard.rs:90-94).
final_verdict(t, rs, r) ==
    LET v2 == finalize(t, after_verdict(t, rs), r)
    IN IF t = G THEN MaxVerdict(v2, KidsOf(G)) ELSE v2

\* after_hooks, add_child of the collected outcomes, OpenContext::finalize
\* and the Finished broadcast (standard.rs:90-97, 140-146, 177-183, 207-208,
\* 233-235; context.rs:146-162, 168-240)
End(t) ==
    /\ EngineStep /\ UNCHANGED held
    /\ \/ t \in Scenarios /\ pc[t] = "after"
       \/ t \notin Scenarios /\ pc[t] = "run" /\ Alive(t) /\ ChildrenDone(t)
    /\ invoked' = invoked \cup Invocations("after", t, after_order(t))
    /\ visited' = [visited EXCEPT ![t].after = after_order(t)]
    /\ \E rs \in HookChoices(after_order(t)) :
        IF teardown_panics(t)
           THEN /\ verdict' = [verdict EXCEPT ![C(t)] = after_verdict(t, rs)]
                /\ pc' = [pc EXCEPT ![t] = "panicked"]
                /\ UNCHANGED <<events, teardowns, observed>>
           ELSE \E r \in TeardownChoices(t) :
                /\ verdict' = [verdict EXCEPT ![C(t)] = final_verdict(t, rs, r)]
                /\ IF t \in SetIds
                   THEN /\ teardowns' = [teardowns EXCEPT ![t] =
                                [T \in Types |-> IF T \in ReadyIn(t) THEN @[T] + 1 ELSE @[T]]]
                        /\ observed' = [observed EXCEPT ![t] =
                                [T \in Types |-> IF T \in ReadyIn(t) THEN counter(t, T) ELSE @[T]]]
                   ELSE UNCHANGED <<teardowns, observed>>
                /\ events' = IF Alive(t) THEN Finished(events, C(t)) ELSE events
                /\ pc' = [pc EXCEPT ![t] = "done"]
    /\ UNCHANGED <<features, options, fixvars, canceled, cur, accessed, stepDisp, flagBetween>>

\* A task that awaits a panicked child panics in turn.
Propagate(t) ==
    /\ EngineStep /\ UNCHANGED held
    /\ pc[t] = "run"
    /\ Alive(t)
    /\ \E u \in KidsOf(t) : pc[u] = "panicked"
    /\ pc' = [pc EXCEPT ![t] = "panicked"]
    /\ UNCHANGED <<verdict, events, features, options, fixvars, canceled, cur, histvars>>

\* Flag::set (flag.rs:34-38)
SetFlag ==
    /\ EngineStep /\ UNCHANGED held
    /\ ~canceled
    /\ pc[G] \notin {"done", "panicked"}
    /\ canceled' = TRUE
    /\ flagBetween' = {c \in Steps : pc[c[1]] = "step" /\ cur[c[1]].i = c[2] /\ c[2] > 1}
    /\ UNCHANGED <<pc, verdict, events, features, options, fixvars, cur,
                   teardowns, accessed, observed, stepDisp, invoked, visited>>

(***************************************************************************)
(* scenario_worker's step loop and run_step (standard.rs:220-262), with    *)
(* the body of the step raced against the flag (utils.rs:43-51).           *)
(***************************************************************************)
\* A step loop that takes the steps from the last to the first
Step_reversed(s) == <<s, StepsOf(s) + 1 - cur[s].i>>

Step(s) == <<s, cur[s].i>>

\* run_step's Finished, scenario_worker's add_child and the loop's advance
CompleteStep(s, v, ev) ==
    /\ verdict' = [verdict EXCEPT ![Step(s)] = v, ![C(s)] = add_child(@, v)]
    /\ events' = Finished(ev, Step(s))
    /\ pc' = [pc EXCEPT ![s] = IF cur[s].i < StepsOf(s) THEN "step" ELSE "after"]
    /\ cur' = [cur EXCEPT ![s] = [i |-> IF @.i < StepsOf(s) THEN @.i + 1 ELSE @.i,
                                  T |-> "none"]]
    /\ held' = [held EXCEPT ![s] = "none"]

\* The body returns Pending at an await.  The select polls the body, then
\* the flag: when the flag is already set the same poll resolves to the
\* cancellation and the body's future is dropped.
SuspendStep(s, where, T, v0, ev) ==
    IF canceled
    THEN CompleteStep(s, set_result(cancel), ev)
    ELSE /\ verdict' = [verdict EXCEPT ![Step(s)] = v0]
         /\ events' = ev
         /\ pc' = [pc EXCEPT ![s] = where]
         /\ cur' = [cur EXCEPT ![s] = [i |-> @.i, T |-> T]]
         /\ UNCHANGED held

\* The step body reads the fixture after use_fixture returned Ok
\* (context.rs:262-266): a panic, caught by PanicToError, unless it is Ready.
AccessVerdict(st) == IF st = "Ready" THEN Passed ELSE set_err(PanicToError(Panic))

\* FixtureSet::activate once it holds the write lock, for an entry that is
\* absent (fixture.rs:301-322): insert Pending, unlock, run T::setup.
CreateFixture(s, T, v0, ev) ==
    LET S == set_for(T, s) IN
    /\ setups' = [setups EXCEPT ![S][T] = @ + 1]
    /\ lock' = [lock EXCEPT ![S] = NoTask]
    /\ \/ /\ fixtures' = [fixtures EXCEPT ![S][T] = "Pending"]
          /\ tx' = [tx EXCEPT ![S][T] = ~canceled]
          /\ SuspendStep(s, "setup", T, v0, ev)
          /\ UNCHANGED accessed
       \/ \E r \in SetupResults :
          /\ fixtures' = [fixtures EXCEPT ![S][T] = after_setup(r)]
          /\ tx' = [tx EXCEPT ![S][T] = FALSE]
          /\ accessed' = [accessed EXCEPT ![s] = IF r.ok THEN @ \cup {T} ELSE @]
          /\ CompleteStep(s, set_result(PanicToError(r)), ev)

lookup_retrying_failed(s, T, v0, ev) ==
    LET S == set_for(T, s) IN
    CASE fixtures[S][T] = "Ready" ->
            /\ accessed' = [accessed EXCEPT ![s] = @ \cup {T}]
            /\ CompleteStep(s, AccessVerdict("Ready"), ev)
            /\ UNCHANGED fixvars
      [] fixtures[S][T] = "Pending" ->
            /\ IF tx[S][T]
               THEN SuspendStep(s, "wait_pending", T, v0, ev)
               ELSE CompleteStep(s, AccessVerdict("Pending"), ev)
            /\ UNCHANGED <<fixvars, accessed>>
      [] OTHER ->
            \/ /\ lock' = IF canceled THEN lock ELSE [lock EXCEPT ![S] = s]
               /\ SuspendStep(s, "upgrade", T, v0, ev)
               /\ UNCHANGED <<fixtures, tx, setups, accessed>>
            \/ CreateFixture(s, T, v0, ev)

\* FixtureSet::activate's match on the entry (fixture.rs:286-300)
lookup(s, T, v0, ev) ==
    LET S == set_for(T, s) IN
    CASE fixtures[S][T] = "Ready" ->
            /\ accessed' = [accessed EXCEPT ![s] = @ \cup {T}]
            /\ CompleteStep(s, AccessVerdict("Ready"), ev)
            /\ UNCHANGED fixvars
      [] fixtures[S][T] = "Failed" ->
            /\ CompleteStep(s, set_err(PlainErr), ev)
            /\ UNCHANGED <<fixvars, accessed>>
      [] fixtures[S][T] = "Pending" ->
            /\ IF tx[S][T]
               THEN SuspendStep(s, "wait_pending", T, v0, ev)
               ELSE CompleteStep(s, AccessVerdict("Pending"), ev)
            /\ UNCHANGED <<fixvars, accessed>>
      [] OTHER ->
            \/ /\ lock' = IF canceled THEN lock ELSE [lock EXCEPT ![S] = s]
               /\ SuspendStep(s, "upgrade", T, v0, ev)
               /\ UNCHANGED <<fixtures, tx, setups, accessed>>
            \/ CreateFixture(s, T, v0, ev)

\* activate whose lookup does not take the upgradable lock
activate_unlocked(s, T, v0, ev) == lookup(s, T, v0, ev)

\* Context::use_fixture and FixtureSet::activate up to its first await or its
\* return (context.rs:324-336, fixture.rs:284-285)
activate(s, T, v0, ev) ==
    IF lock[set_for(T, s)] # NoTask
    THEN SuspendStep(s, "wait_lock", T, v0, ev) /\ UNCHANGED <<fixvars, accessed>>
    ELSE lookup(s, T, v0, ev)

\* run_step: the outcome, Started, and the first poll of the step
RunStep(s) ==
    /\ EngineStep
    /\ pc[s] = "step"
    /\ LET pv == verdict[C(s)]
           v0 == with_parent(is_excluded(s), pv)
           ev == Started(events, Step(s))
       IN IF skipped(pv) \/ failed(pv)
          THEN /\ CompleteStep(s, IF skipped(pv) THEN pv ELSE Skipped, ev)
               /\ UNCHANGED <<fixvars, accessed, stepDisp>>
          ELSE /\ stepDisp' = [stepDisp EXCEPT ![Step(s)] = IF canceled THEN "set" ELSE "unset"]
               /\ \/ \E r \in StepResults :
                        /\ CompleteStep(s, set_result(r), ev)
                        /\ UNCHANGED <<fixvars, accessed>>
                  \/ /\ SuspendStep(s, "wait_body", "none", v0, ev)
                     /\ UNCHANGED <<fixvars, accessed>>
                  \/ \E T \in StepFixtures : activate(s, T, v0, ev)
    /\ UNCHANGED <<features, options, canceled, teardowns, observed, invoked, visited, flagBetween>>

Suspended == {"wait_body", "wait_lock", "upgrade", "setup", "wait_pending"}

\* upgradable_read().await returns (fixture.rs:285)
ActivateLock(s) ==
    /\ EngineStep
    /\ pc[s] = "wait_lock"
    /\ lock[set_for(cur[s].T, s)] = NoTask
    /\ activate(s, cur[s].T, verdict[Step(s)], events)
    /\ UNCHANGED <<features, options, canceled, teardowns, observed, stepDisp, invoked, visited, flagBetween>>

\* RwLockUpgradableReadGuard::upgrade(lock).await returns (fixture.rs:300)
ActivateUpgrade(s) ==
    /\ EngineStep
    /\ pc[s] = "upgrade"
    /\ CreateFixture(s, cur[s].T, verdict[Step(s)], events)
    /\ UNCHANGED <<features, options, canceled, teardowns, observed, stepDisp, invoked, visited, flagBetween>>

\* T::setup returns and the write lock is taken (fixture.rs:307-322)
SetupDone(s) ==
    LET T == cur[s].T
        S == set_for(T, s)
    IN /\ pc[s] = "setup"
       /\ EngineStep
       /\ \E r \in SetupResults :
            /\ ~r.panic => lock[S] = NoTask
            /\ fixtures' = [fixtures EXCEPT ![S][T] = after_setup(r)]
            /\ accessed' = [accessed EXCEPT ![s] = IF r.ok THEN @ \cup {T} ELSE @]
            /\ CompleteStep(s, set_result(PanicToError(r)), events)
       /\ tx' = [tx EXCEPT ![S][T] = FALSE]
       /\ UNCHANGED <<features, options, lock, setups, canceled, teardowns, observed,
                      stepDisp, invoked, visited, flagBetween>>

\* A receiver that returns while the sender is alive
PendingWake_early(s) ==
    LET T == cur[s].T
        S == set_for(T, s)
    IN /\ pc[s] = "wait_pending"
       /\ EngineStep
       /\ accessed' = [accessed EXCEPT ![s] = IF fixtures[S][T] = "Ready" THEN @ \cup {T} ELSE @]
       /\ CompleteStep(s, AccessVerdict(fixtures[S][T]), events)
       /\ UNCHANGED <<features, options, fixvars, canceled, teardowns, observed,
                      stepDisp, invoked, visited, flagBetween>>

\* wait.recv().await returns, with a message or a closed channel
\* (fixture.rs:292-297)
PendingWake(s) ==
    LET T == cur[s].T
        S == set_for(T, s)
    IN /\ pc[s] = "wait_pending"
       /\ EngineStep
       /\ ~tx[S][T]
       /\ accessed' = [accessed EXCEPT ![s] = IF fixtures[S][T] = "Ready" THEN @ \cup {T} ELSE @]
       /\ CompleteStep(s, AccessVerdict(fixtures[S][T]), events)
       /\ UNCHANGED <<features, options, fixvars, canceled, teardowns, observed,
                      stepDisp, invoked, visited, flagBetween>>

\* The suspended body of a step completes (utils.rs:48-49, Either::Left)
BodyResume(s) ==
    /\ EngineStep
    /\ pc[s] = "wait_body"
    /\ \E r \in StepResults : CompleteStep(s, set_result(r), events)
    /\ UNCHANGED <<features, options, fixvars, canceled, histvars>>

\* The flag wins the select (utils.rs:48-50, Either::Right): the body's
\* future is dropped where it is suspended, with its guards and its sender.
StepCancel(s) ==
    LET T == cur[s].T
        S == set_for(T, s)
    IN /\ pc[s] \in Suspended
       /\ EngineStep
       /\ canceled
       /\ lock' = IF pc[s] = "upgrade" THEN [lock EXCEPT ![S] = NoTask] ELSE lock
       /\ tx' = IF pc[s] = "setup" THEN [tx EXCEPT ![S][T] = FALSE] ELSE tx
       /\ CompleteStep(s, set_result(cancel), events)
       /\ UNCHANGED <<features, options, fixtures, setups, canceled, histvars>>

Next ==
    \/ ExecuteStart
    \/ \E f \in Features : ReceiveFeature(f)
    \/ \E t \in Tasks : Begin(t)
    \/ \E t \in Tasks : End(t)
    \/ \E t \in Tasks : Propagate(t)
    \/ SetFlag
    \/ \E s \in Scenarios : RunStep(s)
    \/ \E s \in Scenarios : ActivateLock(s)
    \/ \E s \in Scenarios : ActivateUpgrade(s)
    \/ \E s \in Scenarios : SetupDone(s)
    \/ \E s \in Scenarios : PendingWake(s)
    \/ \E s \in Scenarios : BodyResume(s)
    \/ \E s \in Scenarios : StepCancel(s)

Spec == Init /\ [][Next]_vars

\* The executor polls a task again when the channel it awaits is closed:
\* a waiter whose receiver is ready is eventually resumed.
SpecFair == Spec /\ \A s \in Scenarios : WF_vars(PendingWake(s))

\* Every user callback terminates, the feature channel is drained and
\* closed, and the executor keeps polling every task that can go on:
\* each step of the runner is taken if it stays enabled.  Nothing obliges
\* anybody to set the cancellation flag.
SpecTerm ==
    /\ Spec
    /\ WF_vars(ExecuteStart)
    /\ \A f \in Features : WF_vars(ReceiveFeature(f))
    /\ \A t \in Tasks : WF_vars(Begin(t)) /\ WF_vars(End(t)) /\ WF_vars(Propagate(t))
    /\ \A s \in Scenarios :
          /\ WF_vars(RunStep(s))
          /\ WF_vars(ActivateLock(s))
          /\ WF_vars(ActivateUpgrade(s))
          /\ WF_vars(SetupDone(s))
          /\ WF_vars(PendingWake(s))
          /\ WF_vars(BodyResume(s))
          /\ WF_vars(StepCancel(s))

(***************************************************************************)
(* The step registry (vocab.rs:62-136) and the patterns the step macros    *)
(* register (zuke-macros/src/step_args.rs:244-320).                        *)
(***************************************************************************)
enginevars == <<pc, verdict, events, features, options, fixtures, tx, lock,
                canceled, cur, setups, teardowns, accessed, observed,
                stepDisp, invoked, visited, flagBetween>>

MaxRegistered == 2

\* gherkin's StepType, and the keyword as written in the feature file
StepTypes == {"Given", "When", "Then"}

\* The texts of the steps, and the patterns of the implementations.
Values == {"a door", "A DOOR", "a key"}

Regexes == {"a door", "A Door", "a .*"}

\* (?i): letters match without regard to case
lower(x) == IF x \in {"A DOOR", "A Door"} THEN "a door" ELSE x

\* The texts a pattern matches between ^ and $
Lang(re) == IF lower(re) = "a .*" THEN {"a door", "a key"} ELSE {lower(re)}

\* A step of a feature file: And and But have the type of the step before.
StepTexts == {st \in [ty : StepTypes, keyword : StepTypes \cup {"And"}, value : Values] :
                 st.keyword \in {st.ty, "And"}}

\* given / when / then / step with a pattern (step_args.rs:246-258)
Patterns == [kw : StepTypes \cup {"Any"}, re : Regexes]

\* Vocab::execute's line: the type in English, a blank, the text
\* (vocab.rs:88-94)
normalize(st) == <<st.ty, st.value>>

\* The final pattern ^(?i)<prefix><pattern>$ against a line
\* (step_args.rs:246-258)
is_match(p, line) == p.kw \in {"Any", line[1]} /\ lower(line[2]) \in Lang(p.re)

\* RegexSet::matches (vocab.rs:74-76, 96)
matches(line) == {i \in DOMAIN vocab.steps : is_match(vocab.steps[i], line)}

\* Regex::captures of one implementation (vocab.rs:110-113)
captures(i, line) == is_match(vocab.steps[i], line)

\* A dispatch that runs the first of several matching implementations
execute_first(st, r) ==
    LET line == normalize(st)
        m == matches(line)
    IN IF m = {}
       THEN [step |-> st, err |-> "NoMatch", ran |-> {}, v |-> set_result(PlainErr)]
       ELSE LET i == CHOOSE i \in m : \A j \in m : i <= j
            IN [step |-> st, err |-> "none", ran |-> {i}, v |-> set_result(r)]

\* Vocab::execute, with r the result of the implementation if one runs
\* (vocab.rs:82-117); the outcome of the step is set_result of what it
\* returns (standard.rs:255-256).
execute(st, r) ==
    LET line == normalize(st)
        m == matches(line)
    IN IF m = {}
       THEN [step |-> st, err |-> "NoMatch", ran |-> {}, v |-> set_result(PlainErr)]
       ELSE IF Cardinality(m) > 1
       THEN [step |-> st, err |-> "MultipleMatches", ran |-> {}, v |-> set_result(PlainErr)]
       ELSE LET i == CHOOSE i \in m : TRUE
            IN IF ~captures(i, line)
               THEN [step |-> st, err |-> "BadParameters", ran |-> {}, v |-> set_result(PlainErr)]
               ELSE [step |-> st, err |-> "none", ran |-> {i}, v |-> set_result(r)]

\* inventory::submit of a step implementation (step_args.rs:278-316)
Submit(p) ==
    /\ ~vocab.built
    /\ Len(vocab.steps) < MaxRegistered
    /\ vocab' = [vocab EXCEPT !.steps = Append(@, p)]
    /\ UNCHANGED <<enginevars, dispatched, call, held, auxvars>>

\* Vocab::new (vocab.rs:69-79)
VocabNew ==
    /\ ~vocab.built
    /\ vocab' = [vocab EXCEPT !.built = TRUE]
    /\ UNCHANGED <<enginevars, dispatched, call, held, auxvars>>

\* run_step handing a step to the registry (standard.rs:255-256)
Execute(st) ==
    /\ vocab.built
    /\ \E r \in StepResults : dispatched' = execute(st, r)
    /\ UNCHANGED <<enginevars, vocab, call, held, auxvars>>

NextVocab ==
    \/ \E p \in Patterns : Submit(p)
    \/ VocabNew
    \/ \E st \in StepTexts : Execute(st)

SpecVocab == Init /\ [][NextVocab]_vars

(***************************************************************************)
(* The fixture accessors of Context that user callbacks call               *)
(* (context.rs:268-336), observed at the before and after hooks and in the *)
(* bodies of the steps.                                                    *)
(***************************************************************************)
NoSet == "no set"

\* The Option<Arc<FixtureSet>> of T::SCOPE in the context of t: a global
\* context has no feature set, and only a scenario context has a scenario
\* set (context.rs:48-50, 67-69, 89-91, 112-114, 326-330)
scope_set_outer(T, t) ==
    IF T = "TG" \/ t = G THEN G
    ELSE IF T = "TF" \/ t \notin Scenarios THEN feature_of(t)
    ELSE t

scope_set(T, t) ==
    IF T = "TG" THEN G
    ELSE IF T = "TF" THEN (IF t = G THEN NoSet ELSE feature_of(t))
    ELSE (IF t \in Scenarios THEN t ELSE NoSet)

\* The contexts that own a clone of the Arc of set S: a context is dropped
\* with the future that owns it, and the worker of a scenario is a spawned
\* task that outlives the futures awaiting it (standard.rs:207).
holders(S) ==
    {u \in handles(S) : Alive(u) \/ (u \in Scenarios /\ pc[u] # "start")}

\* Arc::strong_count of set S seen from a callback of t: the contexts, and
\* the clones before_hooks and after_hooks keep for their loop
\* (context.rs:130-134, 149-153)
strong_count(S, site) ==
    Cardinality(holders(S)) + (IF site \in {"before", "after"} THEN 1 ELSE 0)

\* A mutable accessor that does not ask whether the Arc is unique
try_fixture_mut_shared(T, t, site) ==
    LET S == scope_set(T, t)
    IN S # NoSet /\ fixtures[S][T] = "Ready"

\* Context::try_fixture_mut: Arc::get_mut, then the Ready entry
\* (context.rs:281-297, fixture.rs:247-259)
try_fixture_mut(T, t, site) ==
    LET S == scope_set(T, t)
    IN S # NoSet /\ strong_count(S, site) = 1 /\ fixtures[S][T] = "Ready"

\* before_hooks or after_hooks of t is about to call back a Ready fixture
\* (context.rs:127-162, fixture.rs:376-409)
InHook(t, when) ==
    /\ \E S \in Range(before_order(t)) : ReadyIn(S) # {}
    /\ IF when = "before"
       THEN t # G /\ pc[t] = "start" /\ Alive(t)
       ELSE \/ t \in Scenarios /\ pc[t] = "after"
            \/ t \notin Scenarios /\ pc[t] = "run" /\ Alive(t) /\ ChildrenDone(t)

\* The calls of T::setup so far, over all the sets
RECURSIVE SumSetups(_)
SumSetups(ps) ==
    IF ps = {} THEN 0
    ELSE LET p == CHOOSE p \in ps : TRUE
         IN setups[p[1]][p[2]] + SumSetups(ps \ {p})

\* The callbacks of the hooks activate an absent fixture only while fewer
\* than this many fixtures were set up in the run.
MaxHookSetups == 2

\* A before or after callback calls context.use_fixture::<T>()
\* (context.rs:324-336) and FixtureSet::activate runs to its return
\* (fixture.rs:284-324).
HookUseFixture(t, when, T) ==
    /\ call = NoCall
    /\ InHook(t, when)
    /\ LET S == scope_set(T, t) IN
       IF S = NoSet
       THEN /\ call' = [api |-> "use_fixture", site |-> when, t |-> t, T |-> T,
                        res |-> "WrongScope", got |-> FALSE]
            /\ UNCHANGED fixvars
       ELSE /\ lock[S] = NoTask
            /\ ~tx[S][T]
            /\ IF fixtures[S][T] = "Absent"
               THEN \E r \in SetupResults :
                      /\ when = "before"
                      /\ SumSetups(SetIds \X Types) < MaxHookSetups
                      /\ fixtures' = [fixtures EXCEPT ![S][T] = after_setup(r)]
                      /\ setups' = [setups EXCEPT ![S][T] = @ + 1]
                      /\ call' = [api |-> "use_fixture", site |-> when, t |-> t, T |-> T,
                                  res |-> IF r.ok THEN "Ok" ELSE IF r.panic THEN "Panic" ELSE "Err",
                                  got |-> FALSE]
                      /\ UNCHANGED <<tx, lock>>
               ELSE /\ call' = [api |-> "use_fixture", site |-> when, t |-> t, T |-> T,
                                res |-> IF fixtures[S][T] = "Failed" THEN "Failed" ELSE "Ok",
                                got |-> FALSE]
                    /\ UNCHANGED fixvars
    /\ UNCHANGED <<pc, verdict, events, features, options, canceled, cur, histvars,
                   vocab, dispatched, held, auxvars>>

\* A before or after callback calls context.try_fixture_mut::<T>()
HookTryMut(t, when, T) ==
    /\ call = NoCall
    /\ InHook(t, when)
    /\ call' = [api |-> "try_fixture_mut", site |-> when, t |-> t, T |-> T,
                res |-> "none", got |-> try_fixture_mut(T, t, when)]
    /\ UNCHANGED <<pc, verdict, events, features, options, fixvars, canceled, cur,
                   histvars, vocab, dispatched, held, auxvars>>

\* The body of a step calls context.try_fixture_mut::<T>() and keeps the
\* reference it gets until it returns.
StepTryMut(s, T) ==
    /\ pc[s] = "wait_body"
    /\ call = NoCall
    /\ held[s] = "none"
    /\ LET got == try_fixture_mut(T, s, "step") IN
       /\ call' = [api |-> "try_fixture_mut", site |-> "step", t |-> s, T |-> T,
                   res |-> "none", got |-> got]
       /\ held' = IF got THEN [held EXCEPT ![s] = T] ELSE held
    /\ UNCHANGED <<pc, verdict, events, features, options, fixvars, canceled, cur,
                   histvars, vocab, dispatched, auxvars>>

\* A run of all the scenarios that nobody cancels
InitApi == Init /\ options.all /\ options.exc = {}

\* A run that excludes one scenario and that nobody cancels
InitScope == Init /\ options.all /\ options.exc = {"s2"}

\* The runner with callbacks that activate fixtures.  The steps of a single
\* scenario never wait for a lock or for a Pending entry.
NextScope ==
    \/ ExecuteStart
    \/ \E f \in Features : ReceiveFeature(f)
    \/ \E t \in Tasks : Begin(t)
    \/ \E t \in Tasks : End(t)
    \/ \E t \in Tasks : Propagate(t)
    \/ \E s \in Scenarios : RunStep(s)
    \/ \E s \in Scenarios : ActivateUpgrade(s)
    \/ \E s \in Scenarios : SetupDone(s)
    \/ \E s \in Scenarios : BodyResume(s)
    \/ \E t \in Tasks, when \in {"before", "after"}, T \in Types : HookUseFixture(t, when, T)

SpecScope == InitScope /\ [][NextScope]_vars

\* The runner with callbacks that ask for mutable references
NextMut ==
    \/ ExecuteStart
    \/ \E f \in Features : ReceiveFeature(f)
    \/ \E t \in Tasks : Begin(t)
    \/ \E t \in Tasks : End(t)
    \/ \E t \in Tasks : Propagate(t)
    \/ \E s \in Scenarios : RunStep(s)
    \/ \E s \in Scenarios : ActivateLock(s)
    \/ \E s \in Scenarios : ActivateUpgrade(s)
    \/ \E s \in Scenarios : SetupDone(s)
    \/ \E s \in Scenarios : PendingWake(s)
    \/ \E s \in Scenarios : BodyResume(s)
    \/ \E t \in Tasks, when \in {"before", "after"}, T \in Types : HookTryMut(t, when, T)
    \/ \E s \in Scenarios, T \in Types : StepTryMut(s, T)

SpecMut == InitApi /\ [][NextMut]_vars

(***************************************************************************)
(* The derivation of the components and of their included and excluded     *)
(* flags (component.rs:199-326, options.rs:53-60).  The name of a          *)
(* component stands for itself; a pattern is the set of names it matches.  *)
(***************************************************************************)
Names == Comps \ {C(G)}

\* The names the patterns of a run match, at most this many on each side
MaxPatterns == 1

\* -n/--name and -e/--exclude (options.rs:170-188)
FilterOptions == {o \in [inc : SUBSET Names, exc : SUBSET Names] :
                     Cardinality(o.inc) <= MaxPatterns /\ Cardinality(o.exc) <= MaxPatterns}

\* TestOptions::includes and excludes (options.rs:53-60)
includes(o, c) == o.inc = {} \/ c \in o.inc

excludes(o, c) == c \in o.exc

\* The component a component is derived from
parent_comp(c) == IF c[2] = 0 THEN C(parent[c[1]]) ELSE C(c[1])

\* The derived components get their flags: own says whether the name of the
\* new component is matched afresh.
derive(cs, own) ==
    [derived EXCEPT
        !.made = @ \cup cs,
        !.inc = @ \cup {c \in cs : parent_comp(c) \in derived.inc
                                     \/ (own /\ includes(derived.opts, c))},
        !.exc = @ \cup {c \in cs : parent_comp(c) \in derived.exc
                                     \/ (own /\ excludes(derived.opts, c))}]

\* Component::global (component.rs:199-209): neither included nor excluded
ComponentGlobal(o) ==
    /\ derived = NoComponents
    /\ derived' = [opts |-> o, made |-> {C(G)}, inc |-> {}, exc |-> {}]
    /\ UNCHANGED <<enginevars, vocab, dispatched, call, held, rest_derived>>

\* Component::with_feature (component.rs:212-222)
ComponentWithFeature(f) ==
    /\ C(G) \in derived.made
    /\ C(f) \notin derived.made
    /\ derived' = derive({C(f)}, TRUE)
    /\ UNCHANGED <<enginevars, vocab, dispatched, call, held, rest_derived>>

\* Component::with_rules (component.rs:225-242)
ComponentWithRules(f) ==
    /\ C(f) \in derived.made
    /\ \E r \in KidsOf(f) \cap Rules : C(r) \notin derived.made
    /\ derived' = derive({C(r) : r \in KidsOf(f) \cap Rules}, TRUE)
    /\ UNCHANGED <<enginevars, vocab, dispatched, call, held, rest_derived>>

\* Component::with_scenarios (component.rs:246-268)
ComponentWithScenarios(p) ==
    /\ C(p) \in derived.made
    /\ \E s \in KidsOf(p) \cap Scenarios : C(s) \notin derived.made
    /\ derived' = derive({C(s) : s \in KidsOf(p) \cap Scenarios}, TRUE)
    /\ UNCHANGED <<enginevars, vocab, dispatched, call, held, rest_derived>>

\* Component::with_background (component.rs:271-305)
ComponentWithBackground(s) ==
    /\ C(s) \in derived.made
    /\ <<s, 1>> \notin derived.made
    /\ derived' = derive({c \in Steps : c[1] = s /\ c[2] <= NumBackground}, FALSE)
    /\ UNCHANGED <<enginevars, vocab, dispatched, call, held, rest_derived>>

\* Component::with_steps (component.rs:308-326)
ComponentWithSteps(s) ==
    /\ C(s) \in derived.made
    /\ \E c \in Steps : c[1] = s /\ c[2] > NumBackground /\ c \notin derived.made
    /\ derived' = derive({c \in Steps : c[1] = s /\ c[2] > NumBackground}, FALSE)
    /\ UNCHANGED <<enginevars, vocab, dispatched, call, held, rest_derived>>

NextFilter ==
    \/ \E o \in FilterOptions : ComponentGlobal(o)
    \/ \E f \in Features : ComponentWithFeature(f)
    \/ \E f \in Features : ComponentWithRules(f)
    \/ \E p \in Features \cup Rules : ComponentWithScenarios(p)
    \/ \E s \in Scenarios : ComponentWithBackground(s)
    \/ \E s \in Scenarios : ComponentWithSteps(s)

SpecFilter == Init /\ [][NextFilter]_vars

(***************************************************************************)
(* The verdict a component ends with, as a function of the outcome its     *)
(* after_hooks left, the result of its teardown and the verdicts of the    *)
(* children the runner collected (context.rs:168-240; standard.rs:90-94,   *)
(* 140-144, 177-181).                                                      *)
(***************************************************************************)
MaxChildren == 1

\* The child verdicts a component may have collected
ChildVerdicts == {ks \in SUBSET (Excluded..Canceled) : Cardinality(ks) <= MaxChildren}

\* Outcome::add_child for each collected outcome
RECURSIVE add_children(_, _)
add_children(v, ks) ==
    IF ks = {} THEN v
    ELSE LET k == CHOOSE k \in ks : TRUE
         IN add_children(add_child(v, k), ks \ {k})

\* execute adds the features after finalize; run_feature and run_rule add
\* their children before after_hooks and finalize; a scenario adds its steps
\* as they finish.
ComputeVerdict(t, v0, r, ks) ==
    /\ late = NoLate
    /\ late' = [t |-> t, v0 |-> v0, r |-> r, kids |-> ks,
                fin |-> IF t = G THEN finalize(t, v0, r)
                        ELSE finalize(t, add_children(v0, ks), r),
                out |-> IF t = G THEN add_children(finalize(t, v0, r), ks)
                        ELSE finalize(t, add_children(v0, ks), r)]
    /\ UNCHANGED <<enginevars, vocab, dispatched, call, held, rest_late>>

NextLate ==
    /\ late = NoLate
    /\ \E t \in Tasks, v0 \in Undecided..Canceled, r \in TeardownResults, ks \in ChildVerdicts :
         ComputeVerdict(t, v0, r, ks)

SpecLate == Init /\ [][NextLate]_vars

(***************************************************************************)
(* The tags of a component (component.rs:84-113, 145-181).  A component    *)
(* points at the feature, rule and scenario it was derived through; the    *)
(* file gives each of them a list of tags.                                 *)
(***************************************************************************)
MaxTags == 2

TagNames == {"a", "b"}

\* The tag lists a feature, rule or scenario may carry in the file
TagLists == UNION {[1..n -> TagNames] : n \in 0..MaxTags}

\* Component::feature, rule, scenario: whether the pointer is set
has_feature(c) == c[1] # G

has_rule(c) == c[1] \in Rules \/ (c[1] \in Scenarios /\ parent[c[1]] \in Rules)

has_scenario(c) == c[1] \in Scenarios

tags_uninherited(c, f, r, s) ==
    IF has_scenario(c) THEN s
    ELSE IF has_rule(c) THEN r
    ELSE IF has_feature(c) THEN f
    ELSE <<>>

tags_without_rule(c, f, r, s) ==
    (IF has_scenario(c) THEN s ELSE <<>>) \o (IF has_feature(c) THEN f ELSE <<>>)

tags(c, f, r, s) ==
    (IF has_scenario(c) THEN s ELSE <<>>)
        \o (IF has_rule(c) THEN r ELSE <<>>)
        \o (IF has_feature(c) THEN f ELSE <<>>)

\* A component of a file with the tags f, r and s is asked for its tags.
AskTags(c, f, r, s) ==
    /\ tagged = NoTags
    /\ tagged' = [c |-> c, feature |-> f, rule |-> r, scenario |-> s,
                  tags |-> tags(c, f, r, s),
                  uninherited |-> tags_uninherited(c, f, r, s)]
    /\ UNCHANGED <<enginevars, vocab, dispatched, call, held, rest_tagged>>

NextTags ==
    /\ tagged = NoTags
    /\ \E c \in Comps, f \in TagLists, r \in TagLists, s \in TagLists : AskTags(c, f, r, s)

SpecTags == Init /\ [][NextTags]_vars

(***************************************************************************)
(* Tag expressions (zuke-macros hooks.rs:16-75; hooks.rs:7-56, 120-137).   *)
(* An expression is <<"@t">>, <<"@@t">>, <<"not", e>>, <<"and", l, r>> or  *)
(* <<"or", l, r>>; the macro compiles it to a list of Operations in stack  *)
(* order, which eval_expr runs.  <<>> stands for a hook without expression.*)
(***************************************************************************)
MaxDepth == 2

Atoms == {<<"@a">>, <<"@b">>, <<"@@a">>}

RECURSIVE Exprs(_)
Exprs(d) ==
    IF d = 0 THEN Atoms
    ELSE LET E == Exprs(d - 1)
         IN E \cup {<<"not", e>> : e \in E}
              \cup {<<op, l, r>> : op \in {"and", "or"}, l \in E, r \in E}

\* &pair.as_str()[1..] of a tag, &pair.as_str()[2..] of a tag_u
TagOf == [x \in {"@a", "@b", "@@a"} |-> IF x \in {"@a", "@@a"} THEN "a" ELSE "b"]

Op(o, t) == [op |-> o, tag |-> t]

\* consume: the operations of a parsed expression, in stack order
RECURSIVE consume(_)
consume(e) ==
    IF Len(e) = 1
    THEN IF e[1] \in {"@a", "@b"} THEN <<Op("Push", TagOf[e[1]])>>
         ELSE <<Op("PushUninherited", TagOf[e[1]])>>
    ELSE IF Len(e) = 2 THEN consume(e[2]) \o <<Op("Not", "")>>
    ELSE consume(e[2]) \o consume(e[3]) \o <<Op(IF e[1] = "and" THEN "And" ELSE "Or", "")>>

\* register_before_after: no expression gives the empty list
build_expr(e) == IF e = <<>> THEN <<>> ELSE consume(e)

Elems(q) == {q[i] : i \in 1..Len(q)}

Front(q) == SubSeq(q, 1, Len(q) - 1)

\* The stack of eval_expr, or the panic of an expect on an empty stack
Stack(s) == [panic |-> FALSE, s |-> s]

StackPanic == [panic |-> TRUE, s |-> <<>>]

exec_op_and_as_or(op, st, tgs, un) ==
    IF st.panic THEN StackPanic
    ELSE IF op.op = "Push" THEN Stack(Append(st.s, op.tag \in Elems(tgs)))
    ELSE IF op.op = "PushUninherited" THEN Stack(Append(st.s, op.tag \in Elems(un)))
    ELSE IF op.op = "Not"
         THEN IF st.s = <<>> THEN StackPanic
              ELSE Stack(Append(Front(st.s), ~st.s[Len(st.s)]))
    ELSE IF Len(st.s) < 2 THEN StackPanic
    ELSE Stack(Append(Front(Front(st.s)), st.s[Len(st.s) - 1] \/ st.s[Len(st.s)]))

\* One turn of eval_expr's loop
exec_op(op, st, tgs, un) ==
    IF st.panic THEN StackPanic
    ELSE IF op.op = "Push" THEN Stack(Append(st.s, op.tag \in Elems(tgs)))
    ELSE IF op.op = "PushUninherited" THEN Stack(Append(st.s, op.tag \in Elems(un)))
    ELSE IF op.op = "Not"
         THEN IF st.s = <<>> THEN StackPanic
              ELSE Stack(Append(Front(st.s), ~st.s[Len(st.s)]))
    ELSE IF Len(st.s) < 2 THEN StackPanic
    ELSE IF op.op = "And"
         THEN Stack(Append(Front(Front(st.s)), st.s[Len(st.s) - 1] /\ st.s[Len(st.s)]))
    ELSE Stack(Append(Front(Front(st.s)), st.s[Len(st.s) - 1] \/ st.s[Len(st.s)]))

RECURSIVE exec_ops(_, _, _, _)
exec_ops(ops, st, tgs, un) ==
    IF ops = <<>> THEN st
    ELSE exec_ops(Tail(ops), exec_op(Head(ops), st, tgs, un), tgs, un)

\* eval_expr on an empty stack: the stack after the loop, the assert and
\* stack.pop().unwrap_or(true)
eval_expr(ops, tgs, un) ==
    LET st == exec_ops(ops, Stack(<<>>), tgs, un)
    IN IF st.panic \/ Len(st.s) > 1
       THEN [panic |-> TRUE, len |-> 0, result |-> FALSE, stack |-> <<>>]
       ELSE [panic |-> FALSE, len |-> Len(st.s),
             result |-> IF st.s = <<>> THEN TRUE ELSE st.s[Len(st.s)],
             stack |-> IF st.s = <<>> THEN <<>> ELSE Front(st.s)]

\* The tag lists of the files the expressions are evaluated against
ShortTagLists == {l \in TagLists : Len(l) <= 1}

\* The components a gated hook is evaluated for
GatedComps == {C("f1"), C("s2")}

\* HookRunner::before with one hook registered for the kind of c: the hook
\* runs if its expression evaluates to true.
GateHook(e, c, f, r, s) ==
    /\ evald = NoEval
    /\ LET ops == build_expr(e)
           res == eval_expr(ops, tags(c, f, r, s), tags_uninherited(c, f, r, s))
       IN evald' = [expr |-> e, ops |-> ops, c |-> c,
                    tags |-> tags(c, f, r, s),
                    uninherited |-> tags_uninherited(c, f, r, s),
                    panic |-> res.panic, len |-> res.len, result |-> res.result,
                    stack |-> res.stack, fired |-> ~res.panic /\ res.result]
    /\ UNCHANGED <<enginevars, vocab, dispatched, call, held, rest_evald>>

NextEval ==
    /\ evald = NoEval
    /\ \E e \in Exprs(MaxDepth) \cup {<<>>}, c \in GatedComps :
         \E f \in ShortTagLists, r \in ShortTagLists, s \in ShortTagLists :
             GateHook(e, c, f, r, s)

SpecEval == InitApi /\ [][NextEval]_vars

(***************************************************************************)
(* Hook functions (zuke-macros lib.rs:85-153, hooks.rs:61-134; hooks.rs    *)
(* 58-157).  An attribute macro submits one BeforeAfterHook per component  *)
(* kind to the inventory; HookRunner::setup bins them, and its before and  *)
(* after call the hooks binned under the kind of the context's component.  *)
(***************************************************************************)
MaxHooks == 2

ComponentKinds == {"Global", "Feature", "Rule", "Scenario", "Step"}

\* macros' Kind: what the attribute was
MacroKinds == ComponentKinds \cup {"Any"}

\* register_before_after: the ComponentKinds an attribute submits hooks for
kinds_of(K) ==
    IF K = "Any" THEN {"Global", "Feature", "Rule", "Scenario"} ELSE {K}

\* Component::kind of a feature, rule, scenario or the global component
kind(c) ==
    IF c[2] # 0 THEN "Step"
    ELSE IF c[1] \in Scenarios THEN "Scenario"
    ELSE IF c[1] \in Rules THEN "Rule"
    ELSE IF c[1] \in Features THEN "Feature"
    ELSE "Global"

\* The components whose context the runner calls before_hooks and after_hooks
\* with (standard.rs:67, 90, 113, 140, 160, 177, 218, 234): never a step
Visited == {C("g"), C("f1"), C("r1"), C("s1")}

\* HookRunner::setup: the hooks binned under a kind and a moment, in the
\* order of the inventory, by their index
RECURSIVE bin(_, _, _)
bin(inv, k, when) ==
    IF inv = <<>> THEN <<>>
    ELSE LET h == inv[Len(inv)]
         IN IF k \in kinds_of(h.kind) /\ h.when = when
            THEN Append(bin(Front(inv), k, when), Len(inv))
            ELSE bin(Front(inv), k, when)

\* for hook in set { (hook.func)(context).await? } with the results rs of
\* the hook functions: the hooks that are called
RECURSIVE called(_, _)
called(set, rs) ==
    IF set = <<>> THEN <<>>
    ELSE IF rs[Head(set)].ok THEN <<Head(set)>> \o called(Tail(set), rs)
    ELSE <<Head(set)>>

\* The calls of hook functions for a component, appended to the log
RECURSIVE log_calls(_, _, _, _)
log_calls(log, is, when, c) ==
    IF is = <<>> THEN log
    ELSE log_calls(Append(log, <<Head(is), when, c>>), Tail(is), when, c)

HookStep == UNCHANGED <<enginevars, vocab, dispatched, call, held, rest_hooked>>

\* #[before_scenario], #[after], ... on a function
SubmitHook(when, K) ==
    /\ HookStep
    /\ ~hooked.built
    /\ Len(hooked.inventory) < MaxHooks
    /\ hooked' = [hooked EXCEPT !.inventory = Append(@, [when |-> when, kind |-> K])]

\* The pre-test hook use_fixture::<HookRunner> (top.rs:142)
HookRunnerSetup ==
    /\ HookStep
    /\ ~hooked.built
    /\ hooked' = [hooked EXCEPT !.built = TRUE]

\* HookRunner::before for the context of c
HookRunnerBefore(c) ==
    /\ HookStep
    /\ hooked.built
    /\ c \notin hooked.before
    /\ IF c = C(G) THEN TRUE ELSE C(parent[c[1]]) \in hooked.before \ hooked.after
    /\ \E rs \in [1..Len(hooked.inventory) -> HookResults] :
         hooked' = [hooked EXCEPT
             !.before = @ \cup {c},
             !.calls = log_calls(@, called(bin(hooked.inventory, kind(c), "before"), rs),
                                 "before", c)]

\* HookRunner::after for the context of c
HookRunnerAfter(c) ==
    /\ HookStep
    /\ c \in hooked.before \ hooked.after
    /\ \A d \in (Visited \ {C(G)}) \cap hooked.before : C(parent[d[1]]) = c => d \in hooked.after
    /\ \E rs \in [1..Len(hooked.inventory) -> HookResults] :
         hooked' = [hooked EXCEPT
             !.after = @ \cup {c},
             !.calls = log_calls(@, called(bin(hooked.inventory, kind(c), "after"), rs),
                                 "after", c)]

NextHooks ==
    \/ \E when \in {"before", "after"}, K \in MacroKinds : SubmitHook(when, K)
    \/ HookRunnerSetup
    \/ \E c \in Visited : HookRunnerBefore(c)
    \/ \E c \in Visited : HookRunnerAfter(c)

SpecHooks == InitApi /\ [][NextHooks]_vars

(***************************************************************************)
(* The Flag (flag.rs:7-39): a channel nobody sends on, whose only sender   *)
(* set() drops; each holder of a clone may call set() and wait().          *)
(***************************************************************************)
Clones == {"k1", "k2", "k3", "k4"}

\* The channel is closed when its last sender is dropped.
closed(f) == ~f.send

recv_ready(f) == "Err"

\* Receiver::recv on the channel, which is always empty: pending until the
\* channel is closed, then an error
recv(f) == IF closed(f) THEN "Err" ELSE "Pending"

FlagStep == UNCHANGED <<enginevars, vocab, dispatched, call, held, rest_flag>>

\* Flag::set on the clone of k: send.lock().unwrap().take()
FlagSet(k) ==
    /\ FlagStep
    /\ k \notin flag.setters
    /\ flag' = [flag EXCEPT !.send = FALSE, !.setters = @ \cup {k}]

\* Flag::wait on the clone of k: the first poll of recv()
FlagWait(k) ==
    /\ FlagStep
    /\ k \notin flag.waiting \cup flag.woken
    /\ flag' = [flag EXCEPT
           !.waiting = IF recv(flag) = "Pending" THEN @ \cup {k} ELSE @,
           !.early = IF ~closed(flag) THEN @ \cup {k} ELSE @,
           !.woken = IF recv(flag) = "Pending" THEN @ ELSE @ \cup {k}]

\* The waiting task is woken and polls recv() again.
FlagWake(k) ==
    /\ FlagStep
    /\ k \in flag.waiting
    /\ recv(flag) # "Pending"
    /\ flag' = [flag EXCEPT !.waiting = @ \ {k}, !.woken = @ \cup {k}]

NextFlag ==
    \/ \E k \in Clones : FlagSet(k)
    \/ \E k \in Clones : FlagWait(k)
    \/ \E k \in Clones : FlagWake(k)

SpecFlag == InitApi /\ [][NextFlag]_vars

\* Closing the channel notifies every receiver, and the executor polls a
\* notified task again.
SpecFlagFair == SpecFlag /\ \A k \in Clones : WF_vars(FlagWake(k))

(***************************************************************************)
(* Zuke::run (top.rs:60-96) with the StandardRunner (standard.rs:21-29,    *)
(* 44-236): the runner's broadcasts may fail; the results of the reporters *)
(* are joined.                                                             *)
(***************************************************************************)
MaxReporters == 2

\* What the reporters of a run may return, in the order they were added
ReporterResults == UNION {[1..n -> {"Ok", "Err"}] : n \in 0..MaxReporters}

\* The broadcasts of a run: Started and Finished of each component
Broadcasts == Comps \X {"Started", "Finished"}

\* run_rule drops the errors its scenarios return: join_all(pending)
\* ... filter_map(Result::ok) (standard.rs:170-174); every other level passes
\* the error of a child on with `?` (standard.rs:83, 131, 223, 229).
swallowed(c) == c[1] \in Scenarios /\ parent[c[1]] \in Rules

\* StandardRunner::execute when the broadcast of ev for c fails, and the
\* later broadcasts too if the failure persists: the rule's own Finished
\* then fails as well.
execute_result(c, persists) ==
    IF c[1] = NoTask THEN "Ok"
    ELSE IF swallowed(c) /\ ~persists THEN "Ok"
    ELSE "Err"

\* The index of the first reporter that returned an error, or 0
RECURSIVE find_err(_, _)
find_err(rs, i) ==
    IF i > Len(rs) THEN 0
    ELSE IF rs[i] = "Err" THEN i
    ELSE find_err(rs, i + 1)

run_result_of_runner(ex, rs) == IF ex = "Err" \/ find_err(rs, 1) # 0 THEN "Err" ELSE "Ok"

\* let (_, results) = join!(runners, reporters);
\* results.into_iter().find(Result::is_err).unwrap_or(Ok(()))
\* StandardRunner::run has already dropped the result of execute.
run_result(ex, rs) == IF find_err(rs, 1) # 0 THEN "Err" ELSE "Ok"

ZukeRun(c, ev, persists, rs) ==
    /\ top = NoRun
    /\ top' = [done |-> TRUE, fail |-> c, event |-> ev, persists |-> persists,
               execute |-> execute_result(c, persists), reporters |-> rs,
               result |-> run_result(execute_result(c, persists), rs),
               from |-> find_err(rs, 1)]
    /\ UNCHANGED <<enginevars, vocab, dispatched, call, held, rest_top>>

\* A run whose broadcasts all succeed
RunQuiet(rs) == ZukeRun(<<NoTask, 0>>, "none", FALSE, rs)

\* A run in which the broadcast b is the first that fails
RunBusFailure(b, persists, rs) == ZukeRun(b[1], b[2], persists, rs)

NextTop ==
    /\ top = NoRun
    /\ \/ \E rs \in ReporterResults : RunQuiet(rs)
       \/ \E b \in Broadcasts, persists \in BOOLEAN, rs \in ReporterResults :
             RunBusFailure(b, persists, rs)

SpecTop == InitApi /\ [][NextTop]_vars

(***************************************************************************)
(* run_step (standard.rs:238-262) as a function of the scenario's outcome  *)
(* and of what the step's implementation returns.  StepError is a struct   *)
(* with public fields: an implementation may return one that carries any   *)
(* Verdict (step.rs:13-19).                                                *)
(***************************************************************************)
BodyResults == {Ok, PlainErr} \cup {StepError(v) : v \in Undecided..Canceled}

\* The verdict of the outcome run_step broadcasts as Finished
run_step(pv, r) ==
    IF skipped(pv) THEN pv
    ELSE IF failed(pv) THEN Skipped
    ELSE set_result(r)

StepRun(pv, excl, r) ==
    /\ stepped = NoStep
    /\ stepped' = [done |-> TRUE, parent |-> pv, excluded |-> excl, result |-> r,
                   started |-> with_parent(excl, pv), verdict |-> run_step(pv, r)]
    /\ UNCHANGED <<enginevars, vocab, dispatched, call, held, rest_stepped>>

NextStep ==
    /\ stepped = NoStep
    /\ \E pv \in Undecided..Canceled, excl \in BOOLEAN, r \in BodyResults : StepRun(pv, excl, r)

SpecStep == InitApi /\ [][NextStep]_vars

(***************************************************************************)
(* OpenContext::finalize of one context (context.rs:168-240), with the     *)
(* teardown callbacks of its fixtures calling the accessors of the context *)
(* (context.rs:253-259, 324-336).                                          *)
(***************************************************************************)
\* The order finalize takes the sets in (context.rs:200-225)
ScopeOrder == <<"Scenario", "Feature", "Global">>

\* The scopes a context of kind k has Some set for (context.rs:44-50,
\* 66-69, 88-91, 111-114)
context_sets(k) ==
    IF k = "Global" THEN {"Global"}
    ELSE IF k = "Scenario" THEN {"Scenario", "Feature", "Global"}
    ELSE {"Feature", "Global"}

\* A guard that also tears down the sets outside the level of the context
do_teardown_outward(k, scope) ==
    \/ k = scope
    \/ k = "Scenario" /\ scope \in {"Feature", "Global"}
    \/ k \in {"Feature", "Rule"} /\ scope = "Global"

\* do_teardown goes on only for the set of the context's own kind
\* (context.rs:182-184)
do_teardown(k, scope) == k = scope

\* Context::use_fixture and Context::try_fixture for scope X in a context
\* whose Some sets are sets (context.rs:253-259, 324-336)
access(api, X, sets) ==
    IF X \in sets THEN "set"
    ELSE IF api = "use_fixture" THEN "WrongScope" ELSE "None"

\* What a teardown callback returns to finalize
FinalizeResults == {Ok, PlainErr, skip}

\* The late evaluation of inclusion (context.rs:230-239)
late_inclusion(v, incl) ==
    IF v = Undecided THEN (IF incl THEN Passed ELSE Excluded) ELSE v

\* finalize is entered by a context of kind k with the outcome v0
FinalizeBegin(k, v0, incl, shared) ==
    /\ fin = NoFinalize
    /\ fin' = [fin EXCEPT !.stage = "take", !.kind = k, !.sets = context_sets(k),
                          !.v = v0, !.included = incl, !.shared = shared]

\* context.<scope>_fixtures.take() and the entry of do_teardown
FinalizeTake ==
    /\ fin.stage = "take"
    /\ fin.at <= Len(ScopeOrder)
    /\ LET scope == ScopeOrder[fin.at] IN
       IF do_teardown(fin.kind, scope) /\ scope \in fin.sets
       THEN fin' = [fin EXCEPT !.sets = @ \ {scope},
                               !.stage = IF fin.shared THEN "panicked" ELSE "teardown"]
       ELSE fin' = [fin EXCEPT !.sets = @ \ {scope}, !.at = @ + 1]

\* T::teardown of a fixture of the set calls an accessor of the context
TeardownAccess(api, X) ==
    /\ fin.stage = "teardown"
    /\ LET scope == ScopeOrder[fin.at] IN
       fin' = [fin EXCEPT !.calls = @ \cup
                 {[during |-> scope, api |-> api, X |-> X, res |-> access(api, X, fin.sets)]}]

\* FixtureSet::teardown returns r to do_teardown (context.rs:186-193)
TeardownReturn(r) ==
    /\ fin.stage = "teardown"
    /\ LET scope == ScopeOrder[fin.at] IN
       fin' = [fin EXCEPT !.torn = @ \cup {scope},
                          !.errs = IF r.ok THEN @ ELSE @ \cup {r},
                          !.v = IF r.ok THEN @ ELSE set_err(r),
                          !.stage = "take", !.at = @ + 1]

\* The outcome finalize returns
FinalizeEnd ==
    /\ fin.stage = "take"
    /\ fin.at > Len(ScopeOrder)
    /\ fin' = [fin EXCEPT !.stage = "done", !.v = late_inclusion(@, fin.included)]

FinalizeStep == UNCHANGED <<enginevars, vocab, dispatched, call, held, rest_fin>>

NextFinalize ==
    \/ /\ fin = NoFinalize
       /\ \E k \in ComponentKinds \ {"Step"}, v0 \in Undecided..Canceled,
             incl \in BOOLEAN, shared \in BOOLEAN : FinalizeBegin(k, v0, incl, shared)
       /\ FinalizeStep
    \/ FinalizeTake /\ FinalizeStep
    \/ \E api \in {"use_fixture", "try_fixture"}, X \in context_sets("Scenario") :
          TeardownAccess(api, X) /\ FinalizeStep
    \/ \E r \in FinalizeResults : TeardownReturn(r) /\ FinalizeStep
    \/ FinalizeEnd /\ FinalizeStep

SpecFinalize == InitApi /\ [][NextFinalize]_vars

(***************************************************************************)
(* FixtureSet::activate::<T> of one fixture type on one set, called by     *)
(* concurrent tasks (fixture.rs:284-324).  The lookup and the insertion of *)
(* Pending happen under the upgradable read lock, which one task holds at  *)
(* a time.  ret is what activate returned to a caller and at the entry of  *)
(* T in the set when it returned.                                          *)
(***************************************************************************)
\* FixtureSet::get: Some exactly for a Ready entry (fixture.rs:236-245)
get(entry) == IF entry = "Ready" THEN "Some" ELSE "None"

\* activate returns r to caller k
Return(k, r, entry) ==
    [act EXCEPT !.pc[k] = "returned", !.ret[k] = r, !.at[k] = entry]

\* The match on the state of T (fixture.rs:285-299, 303-304)
ActivateEnter(k) ==
    /\ act.pc[k] = "idle"
    /\ act' = CASE act.entry = "Ready" -> Return(k, "Ok", act.entry)
                [] act.entry = "Failed" -> Return(k, "Failed", act.entry)
                [] act.entry = "Pending" ->
                      IF act.tx THEN [act EXCEPT !.pc[k] = "waiting"]
                      ELSE Return(k, "Ok", act.entry)
                [] OTHER -> [act EXCEPT !.entry = "Pending", !.tx = TRUE, !.pc[k] = "setup"]

\* create_fixture returns r, the entry is replaced and _tx is dropped
\* (fixture.rs:307-322); a panic of T::setup unwinds through activate.
ActivateSetupReturn(k, r) ==
    /\ act.pc[k] = "setup"
    /\ act' = [act EXCEPT !.entry = after_setup(r), !.tx = FALSE,
                          !.pc[k] = IF r.panic THEN "panicked" ELSE "returned",
                          !.ret[k] = IF r.ok THEN "Ok" ELSE IF r.panic THEN "none" ELSE "Err",
                          !.at[k] = after_setup(r)]

\* The future of the step that runs T::setup is dropped (utils.rs:48-50)
ActivateSetupDropped(k) ==
    /\ act.pc[k] = "setup"
    /\ act' = [act EXCEPT !.tx = FALSE, !.pc[k] = "dropped"]

\* let _ = wait.recv().await; Ok(()) (fixture.rs:292-297)
ActivateWake(k) ==
    /\ act.pc[k] = "waiting"
    /\ ~act.tx
    /\ act' = Return(k, "Ok", act.entry)

ActivateStep == UNCHANGED <<enginevars, vocab, dispatched, call, held, rest_act>>

NextActivate ==
    \/ \E k \in Callers : ActivateEnter(k) /\ ActivateStep
    \/ \E k \in Callers, r \in SetupResults : ActivateSetupReturn(k, r) /\ ActivateStep
    \/ \E k \in Callers : ActivateSetupDropped(k) /\ ActivateStep
    \/ \E k \in Callers : ActivateWake(k) /\ ActivateStep

SpecActivate == InitApi /\ [][NextActivate]_vars

(***************************************************************************)
(* The claims.                                                             *)
(***************************************************************************)
\* The children of a component in the outcome tree.
ChildComps(c) ==
    IF c[2] # 0 THEN {}
    ELSE {C(u) : u \in KidsOf(c[1])} \cup {d \in Steps : d[1] = c[1]}

\* No task of the run can take another step.
Stopped(t) ==
    \/ pc[t] \in {"idle", "done", "panicked"}
    \/ ~Alive(t) /\ (t \notin Scenarios \/ pc[t] = "start")

RunOver == \A t \in Tasks : Stopped(t)

\* C1: every component the runner visits gets exactly one Started and
\* exactly one Finished, Started first: never more than one of each, never a
\* Finished without its Started, and when the run is over every Started
\* component has its Finished.
C1_OneStartedOneFinished ==
    \A c \in Comps :
        /\ events.finished[c] <= events.started[c]
        /\ events.started[c] <= 1
        /\ RunOver => events.finished[c] = events.started[c]

\* C2: Finished(c) is broadcast only after Finished(child) of every child of
\* c, and no Started or Finished is broadcast after Finished(global).
C2_FinishedAfterChildren ==
    /\ [](\A c \in Comps : events.finished[c] > 0 =>
            \A d \in ChildComps(c) : events.finished[d] = 1)
    /\ [][events.finished[C(G)] > 0 => events' = events]_vars

C2_Witness ==
    /\ events.finished[C(G)] = 1
    /\ events.finished[<<"s1", StepsOf("s1")>>] = 1
    /\ events.finished[C("s2")] = 1

\* C3: the verdict of a Finished component is never lower than the verdict
\* of any of its children.
C3_VerdictNotBelowChildren ==
    \A c \in Comps : events.finished[c] > 0 =>
        \A d \in ChildComps(c) : verdict[c] >= verdict[d]

\* C4: T::setup runs at most once per fixture type and fixture set, and the
\* callers that got the fixture got the instance of that one setup.
C4_SetupAtMostOnce ==
    /\ \A S \in SetIds : \A T \in Types : setups[S][T] <= 1
    /\ \A s \in Scenarios : \A T \in accessed[s] :
          fixtures[set_for(T, s)][T] = "Ready" /\ setups[set_for(T, s)][T] = 1

\* Two scenarios use the feature's fixture concurrently: one is in the
\* setup, the other waits on the Pending entry.
C4_Witness ==
    \E a, b \in Scenarios :
        /\ pc[a] = "setup" /\ cur[a].T = "TF"
        /\ pc[b] = "wait_pending" /\ cur[b].T = "TF"
        /\ setups["f1"]["TF"] = 1

\* C5: a fixture is torn down iff its setup succeeded, and then exactly once,
\* at the finalize of the component that owns its set.
C5_TeardownIffSetupOk ==
    \A S \in SetIds : \A T \in Types :
        /\ teardowns[S][T] <= 1
        /\ teardowns[S][T] = 1 => fixtures[S][T] = "Ready" /\ pc[S] = "done"
        /\ RunOver /\ fixtures[S][T] = "Ready" => teardowns[S][T] = 1

Under(f) == {u \in Tasks : f \in Ancestors(u)}

\* C6: the after-hooks and the finalize of a feature, where the teardown of
\* its fixtures runs, come only after every rule and scenario of the feature
\* is done; the teardown sees the counter with the increments of all
\* scenarios and none is added after it; likewise for the global fixtures
\* and the features.
C6_TeardownAfterScenarios ==
    /\ \A f \in Features :
        /\ visited[f].after # <<>> => \A u \in Under(f) : pc[u] = "done"
        /\ \A T \in Types : teardowns[f][T] > 0 =>
              /\ \A u \in Under(f) : pc[u] = "done"
              /\ observed[f][T] = counter(f, T)
    /\ visited[G].after # <<>> => features = {} /\ \A f \in Features : pc[f] = "done"
    /\ \A T \in Types : teardowns[G][T] > 0 => \A u \in Tasks \ {G} : pc[u] = "done"

\* The teardown of the feature's fixture saw the increments of both scenarios.
C6_Witness ==
    /\ teardowns["f1"]["TF"] = 1
    /\ observed["f1"]["TF"] = Cardinality(Scenarios)
    /\ teardowns[G]["TG"] = 1

C8_HookOrder ==
    /\ \A s \in Scenarios :
        /\ visited[s].before \in {<<>>, <<G, feature_of(s), s>>}
        /\ visited[s].after \in {<<>>, <<s, feature_of(s), G>>}
        /\ visited[s].before # <<>> =>
              visited[feature_of(s)].before # <<>> /\ visited[G].before # <<>>
        /\ visited[feature_of(s)].after # <<>> => visited[s].after # <<>>
    /\ \A f \in Features :
        /\ visited[f].before \in {<<>>, <<G, f>>}
        /\ visited[f].after \in {<<>>, <<f, G>>}
        /\ visited[f].before # <<>> => visited[G].before # <<>>
        /\ visited[G].after # <<>> => visited[f].after # <<>>

\* A run whose hooks called back fixtures of all three scopes.
C8_Witness ==
    /\ visited[G].after # <<>>
    /\ {<<"before", "s1", G, "TG">>, <<"before", "s2", "f1", "TF">>,
        <<"after", "s2", "s2", "TS">>, <<"after", "s2", "f1", "TF">>,
        <<"after", "s2", G, "TG">>, <<"after", "f1", "f1", "TF">>} \subseteq invoked

\* C9: a step dispatched after flag.set() resolves to Canceled.
C9_DispatchedAfterSetIsCanceled ==
    \A c \in Steps : stepDisp[c] = "set" /\ events.finished[c] > 0 => verdict[c] = Canceled

\* C10: when the flag is set between step k and the dispatch of step k+1,
\* step k+1 is Canceled, the later steps are Skipped without a dispatch, and
\* the scenario and the root finish Canceled.
C10_CanceledBetweenSteps ==
    \A c \in flagBetween : stepDisp[c] = "set" /\ events.finished[c] > 0 =>
        /\ verdict[c] = Canceled
        /\ \A d \in Steps : d[1] = c[1] /\ d[2] > c[2] /\ events.finished[d] > 0 =>
              verdict[d] = Skipped /\ stepDisp[d] = "no"
        /\ events.finished[C(c[1])] > 0 => verdict[C(c[1])] = Canceled
        /\ events.finished[C(G)] > 0 => verdict[C(G)] = Canceled

\* C11: cancellation never interrupts a fixture setup: an entry is Pending
\* only while the task that inserted it is inside T::setup, so that the setup
\* ends and the entry becomes Ready or Failed.
C11_SetupNotInterrupted ==
    \A S \in SetIds : \A T \in Types :
        fixtures[S][T] = "Pending" =>
            \E s \in Scenarios : pc[s] = "setup" /\ cur[s].T = T /\ set_for(T, s) = S

\* C12: a panic of a user callback never leaves the engine: in a run whose
\* flag is never set, so that nothing but the callbacks' own errors and
\* panics disturbs it, no task of the runner panics, and the run that is over
\* has broadcast Finished(global).
C12_PanicContained ==
    ~canceled =>
        /\ \A t \in Tasks : pc[t] # "panicked"
        /\ RunOver => events.finished[C(G)] = 1

\* C13: when a step of a scenario has finished with a failed verdict, every
\* later step of the scenario finishes Skipped without being dispatched, the
\* scenario finishes with that failed verdict, and its feature finishes with
\* a failed verdict.
C13_SkipPropagation ==
    \A c \in Steps : events.finished[c] > 0 /\ failed(verdict[c]) =>
        /\ \A d \in Steps : d[1] = c[1] /\ d[2] > c[2] /\ events.finished[d] > 0 =>
              verdict[d] = Skipped /\ stepDisp[d] = "no"
        /\ events.finished[C(c[1])] > 0 => verdict[C(c[1])] = verdict[c]
        /\ events.finished[C(feature_of(c[1]))] > 0 => failed(verdict[C(feature_of(c[1]))])

\* A before-hook of t returned an error: t is past its before_hooks and has
\* the verdict set_err gave it, which nothing else has touched yet.  For the
\* global component the failed pre-test hook, which leaves no Ready fixture
\* to call back, is told apart.
BeforeHookFailed(t) ==
    /\ verdict[C(t)] = Failed
    /\ IF t \in Scenarios
       THEN pc[t] \in {"step", "after"} \cup Suspended /\ \A c \in Steps : c[1] = t => stepDisp[c] = "no"
       ELSE pc[t] = "run" /\ (t = G => fixtures[G]["TG"] = "Ready")

\* C14: below a component whose before-hook failed no step is dispatched,
\* and every descendant component and step that finishes is Skipped.
C14_BeforeFailureSkipsSubtree ==
    \A t \in Tasks : BeforeHookFailed(t) =>
        /\ \A c \in Steps : c[1] \in Under(t) \cup {t} =>
              /\ stepDisp[c] = "no"
              /\ events.finished[c] > 0 => verdict[c] = Skipped
        /\ \A u \in Under(t) : events.finished[C(u)] > 0 => verdict[C(u)] = Skipped

\* C15: when an after-hook of a component returns an ordinary error, the
\* component finishes with a failed verdict, whatever its other after-hooks
\* and its teardown return; and the verdict of an outcome that has finished,
\* such as that of a child, is never changed afterwards.
C15_AfterFailureFailsComponent ==
    /\ [](\A t \in Tasks : (ENABLED End(t)) /\ ~teardown_panics(t) =>
            \A rs \in HookChoices(after_order(t)) :
                (\E S \in Range(after_order(t)) : rs[S] = PlainErr) =>
                    \A r \in TeardownChoices(t) : failed(final_verdict(t, rs, r)))
    /\ [][\A c \in Comps : events.finished[c] > 0 => verdict'[c] = verdict[c]]_vars

Matching(st) ==
    {i \in DOMAIN vocab.steps :
        /\ vocab.steps[i].kw \in {"Any", st.ty}
        /\ lower(st.value) \in Lang(vocab.steps[i].re)}

\* C16: a dispatched step whose text matches no registered pattern fails
\* with NoMatch, one that matches several fails with MultipleMatches, and in
\* both cases no implementation runs and the outcome is Failed; a step that
\* matches exactly one pattern runs that implementation and no other, and has
\* the outcome of its result.
C16_ExactlyOneImplementation ==
    dispatched # NoDispatch =>
        LET m == Matching(dispatched.step) IN
        /\ m = {} => dispatched.err = "NoMatch"
        /\ Cardinality(m) > 1 => dispatched.err = "MultipleMatches"
        /\ Cardinality(m) # 1 => dispatched.ran = {} /\ dispatched.v = Failed
        /\ Cardinality(m) = 1 =>
              dispatched.ran = m /\ dispatched.err = "none" /\ dispatched.v \in {Passed, Failed}

\* Two implementations whose patterns overlap were registered and the
\* registry was built; the step that both match, written with And, fails at
\* its dispatch.
C16_Witness ==
    /\ vocab.built
    /\ vocab.steps = <<[kw |-> "Given", re |-> "A Door"], [kw |-> "Any", re |-> "a .*"]>>
    /\ dispatched.step = [ty |-> "Given", keyword |-> "And", value |-> "A DOOR"]
    /\ dispatched.err = "MultipleMatches"

\* Fixture::SCOPE and the kind of a context's component, from the outermost
\* to the innermost (fixture.rs:30-37)
ScopeRank(T) == IF T = "TG" THEN 0 ELSE IF T = "TF" THEN 1 ELSE 2

Level(t) == IF t = G THEN 0 ELSE IF t \in Scenarios THEN 2 ELSE 1

\* C18: use_fixture returns WrongScope exactly when the fixture's scope is
\* inside the scope of the calling context (a scenario-scoped fixture from a
\* global, feature or rule context, a feature-scoped one from the global
\* context); such a call runs no setup and changes no fixture set; a fixture
\* of the same or an outer scope is accepted.
C18_WrongScope ==
    /\ [](call.api = "use_fixture" =>
            (call.res = "WrongScope" <=> ScopeRank(call.T) > Level(call.t)))
    /\ [][(call'.api = "use_fixture" /\ call'.res = "WrongScope")
            => UNCHANGED <<fixtures, setups, tx, lock>>]_vars

\* A callback of a rule's hooks asked for the scenario-scoped fixture.
C18_Witness ==
    /\ call.api = "use_fixture"
    /\ call.t \in Rules
    /\ call.T = "TS"
    /\ call.res = "WrongScope"
    /\ \A S \in SetIds : fixtures[S]["TS"] = "Absent"

\* A feature or the run is in progress from its start to its Finished.
InProgress(t) == pc[t] \in {"start", "run"}

\* C19: try_fixture_mut hands out a mutable reference only when no other
\* context holds the fixture's set and no before_hooks or after_hooks loop is
\* in flight; a step never gets one to a feature-scoped fixture while its
\* feature is in progress, nor to a global-scoped fixture while the run is in
\* progress; and no two scenarios hold mutable references to the same
\* fixture at the same time.
C19_ExclusiveMutableAccess ==
    /\ (call.api = "try_fixture_mut" /\ call.got) =>
          /\ call.site = "step"
          /\ \A u \in Tasks \ {call.t} : u \notin holders(scope_set(call.T, call.t))
          /\ call.T = "TF" => ~InProgress(feature_of(call.t))
          /\ call.T = "TG" => ~InProgress(G)
    /\ \A s1, s2 \in Scenarios :
          (s1 # s2 /\ held[s1] # "none" /\ held[s2] # "none")
              => scope_set(held[s1], s1) # scope_set(held[s2], s2)

\* A step got a mutable reference to its scenario's fixture while the other
\* scenario of the feature is in the body of a step.
C19_Witness ==
    /\ call.api = "try_fixture_mut"
    /\ call.got
    /\ call.t = "s1"
    /\ call.T = "TS"
    /\ held["s1"] = "TS"
    /\ pc["s2"] = "wait_body"
    /\ InProgress("f1")

\* C20: try_fixture_mut called from a before or after hook of the component
\* that owns the set of a Ready fixture (a feature for a feature-scoped
\* fixture, the run for a global one, a scenario for a scenario-scoped one)
\* returns the fixture.
C20_MutableAtOwningScope ==
    (/\ call.api = "try_fixture_mut"
     /\ call.site \in {"before", "after"}
     /\ call.t \in SetIds
     /\ scope_set(call.T, call.t) = call.t
     /\ fixtures[call.t][call.T] = "Ready") => call.got

\* The component and the components above it, below the global one
SelfAndAbove(c) ==
    IF c[2] # 0 THEN {c} \cup {C(u) : u \in AncSelf(c[1])}
    ELSE {C(u) : u \in AncSelf(c[1])}

\* C21: a derived feature, rule, scenario or step is included iff no include
\* pattern was given or its own name or the name of a component above it
\* matches one, and excluded iff its own name or the name of a component
\* above it matches an exclude pattern; a flag of the parent is never cleared
\* in the child; an excluded component starts Excluded even when included.
C21_NameFiltering ==
    \A c \in derived.made \ {C(G)} :
        /\ c \in derived.inc <=>
              (derived.opts.inc = {} \/ SelfAndAbove(c) \cap derived.opts.inc # {})
        /\ c \in derived.exc <=> SelfAndAbove(c) \cap derived.opts.exc # {}
        /\ parent_comp(c) \in derived.inc => c \in derived.inc
        /\ parent_comp(c) \in derived.exc => c \in derived.exc
        /\ (c \in derived.exc /\ c[1] \notin Features) =>
              \A pv \in Undecided..Canceled : with_parent(c \in derived.exc, pv) = Excluded

\* C22: when the outcome of the global component is still Undecided after
\* its teardown, finalize makes it Passed if no include pattern was given
\* (the global component is then included) and Excluded otherwise; a run
\* without include patterns whose hooks, teardown and features set no
\* verdict ends with the root verdict Passed.
C22_LateGlobalVerdict ==
    late.t = G =>
        /\ (IF late.r.ok THEN late.v0 ELSE set_err(late.r)) = Undecided =>
              late.fin = IF options.all THEN Passed ELSE Excluded
        /\ (options.all /\ late.v0 = Undecided /\ late.r.ok /\ late.kids = {}) =>
              late.out = Passed

\* The levels above a component, itself included when it is no step
LevelsOf(c) == AncSelf(c[1])

\* The tags the file gives the level of c that is of the given kind
LevelTags(c, level, l) == IF LevelsOf(c) \cap level # {} THEN l ELSE <<>>

RECURSIVE Holds(_, _, _)
Holds(e, T, U) ==
    IF e = <<>> THEN TRUE
    ELSE IF Len(e) = 1
    THEN IF e[1] \in {"@a", "@b"} THEN TagOf[e[1]] \in T ELSE TagOf[e[1]] \in U
    ELSE IF Len(e) = 2 THEN ~Holds(e[2], T, U)
    ELSE IF e[1] = "and" THEN Holds(e[2], T, U) /\ Holds(e[3], T, U)
    ELSE Holds(e[2], T, U) \/ Holds(e[3], T, U)

\* C24: for the operations compiled from an expression E, eval_expr returns
\* the classical truth value of E over the component's inherited (@t) and
\* uninherited (@@t) tags, without a panic and with at most one value on
\* the stack at the end; the empty list evaluates to true; the hook fires
\* exactly when the value is true, so that one gated by `@a and @b` fires
\* for a scenario tagged @a @b and not for one tagged only @a.
C24_ClassicalEvaluation ==
    evald # NoEval =>
        /\ ~evald.panic
        /\ evald.len <= 1
        /\ evald.stack = <<>>
        /\ evald.result = Holds(evald.expr, Elems(evald.tags), Elems(evald.uninherited))
        /\ evald.ops = <<>> => evald.result
        /\ evald.fired = evald.result
        /\ (evald.expr = <<"and", <<"@a">>, <<"@b">>>> /\ evald.c[1] \in Scenarios) =>
              (evald.fired <=> {"a", "b"} \subseteq Elems(evald.tags))

\* A hook gated by `@b and not @@a` was evaluated for the scenario under the
\* rule, which is tagged b itself and inherits a from its rule: it fired.
C24_Witness ==
    /\ evald.expr = <<"and", <<"@b">>, <<"not", <<"@@a">>>>>>
    /\ evald.c = C("s2")
    /\ evald.uninherited = <<"b">>
    /\ "a" \in Elems(evald.tags)
    /\ evald.fired

\* How often the i-th registered hook function was called for c
Calls(i, when, c) ==
    Cardinality({j \in 1..Len(hooked.calls) : hooked.calls[j] = <<i, when, c>>})

\* The components HookRunner::before (after) was called for
Seen(when) == IF when = "before" THEN hooked.before ELSE hooked.after

\* C25: a before (after) hook of kind Global, Feature, Rule or Scenario
\* without tag expression is called exactly once before (after) every
\* component of its kind the runner visits, and for no other component; a
\* hook of the any-component category is binned under Global, Feature, Rule
\* and Scenario and not under Step, and is never called for a step.
C25_HookSelectionByKind ==
    \A i \in 1..Len(hooked.inventory) :
        LET h == hooked.inventory[i]
            K == IF h.kind = "Any" THEN ComponentKinds \ {"Step"} ELSE {h.kind}
        IN /\ \A when \in {"before", "after"}, c \in Visited :
                 Calls(i, when, c) =
                     IF h.when = when /\ c \in Seen(when) /\ kind(c) \in K THEN 1 ELSE 0
           /\ h.kind = "Any" =>
                 /\ \A k \in ComponentKinds \ {"Step"} : \E j \in 1..Len(bin(hooked.inventory, k, h.when)) :
                        bin(hooked.inventory, k, h.when)[j] = i
                 /\ \A j \in 1..Len(bin(hooked.inventory, "Step", h.when)) :
                        bin(hooked.inventory, "Step", h.when)[j] # i
                 /\ \A j \in 1..Len(hooked.calls) :
                        hooked.calls[j][1] = i => kind(hooked.calls[j][3]) # "Step"

\* The flag is Set once its sender was taken.
IsSet == closed(flag)

\* C26: the flag starts Unset and set() makes it Set; once Set it stays Set;
\* a further set(), on any clone, changes nothing; no wait() completes while
\* the flag is Unset; and every wait(), begun before or after set(),
\* completes once the flag is Set.
C26_OneShotBroadcast ==
    /\ [](flag.setters = {} <=> ~IsSet)
    /\ [][IsSet => IsSet']_vars
    /\ [][(IsSet /\ flag'.setters # flag.setters) =>
             [flag' EXCEPT !.setters = flag.setters] = flag]_vars
    /\ [][flag'.woken # flag.woken => IsSet']_vars
    /\ [](~IsSet => flag.woken = {})
    /\ \A k \in Clones : (k \in flag.waiting /\ IsSet) ~> (k \in flag.woken)
    /\ [](\A k \in Clones \ flag.early : k \notin flag.waiting)

\* The flag was set twice; a wait begun before the first set and one begun
\* after it have both completed.
C26_Witness ==
    /\ Cardinality(flag.setters) >= 2
    /\ flag.early \cap flag.woken # {}
    /\ flag.woken \ flag.early # {}

\* C27: the top-level run returns success iff every reporter returned
\* success, whatever the runner returned: one reporter's error makes it an
\* error, and an error of the runner alone does not.
C27_ExitFromReporters ==
    top.done =>
        /\ top.result = "Ok" <=> \A i \in 1..Len(top.reporters) : top.reporters[i] = "Ok"
        /\ (\E i \in 1..Len(top.reporters) : top.reporters[i] = "Err") => top.result = "Err"

\* The runner's execute returned an error, both reporters returned success
\* and so did the run.
C27_Witness ==
    /\ top.done
    /\ top.execute = "Err"
    /\ top.reporters = <<"Ok", "Ok">>
    /\ top.result = "Ok"

\* C28: when the broadcast of a Started or Finished event fails, at any
\* level, the failure comes out of the runner's execute and the top-level
\* run returns an error.
C28_BusFailureIsFatal ==
    (top.done /\ top.event # "none") => (top.execute = "Err" /\ top.result = "Err")

\* C29: no outcome that a Finished event carries has the verdict Undecided;
\* a step's outcome is decided by the time run_step finishes it.
C29_FinishedIsDecided ==
    stepped.done => stepped.verdict # Undecided

\* The moves of an entry: absent -> Pending -> (Ready | Failed).  A setup
\* that returns without suspending inserts Pending and then its result in
\* one step of the model.
EntryMoves ==
    {<<"Absent", "Pending">>, <<"Pending", "Ready">>, <<"Pending", "Failed">>,
     <<"Absent", "Ready">>, <<"Absent", "Failed">>}

\* C30: in every FixtureSet an entry only moves absent -> Pending -> (Ready |
\* Failed): it is never removed, a Ready or Failed entry is never replaced
\* or made Pending again, and the value of a Ready entry is the one its only
\* setup made, whatever the interleaving of activate, before, after and
\* teardown.
C30_EntryOnlyMovesForward ==
    /\ [][\A S \in SetIds, T \in Types :
             fixtures'[S][T] # fixtures[S][T] =>
                 <<fixtures[S][T], fixtures'[S][T]>> \in EntryMoves]_vars
    /\ [](\A S \in SetIds, T \in Types :
             /\ setups[S][T] <= 1
             /\ fixtures[S][T] = "Absent" <=> setups[S][T] = 0)

\* The feature's fixture is Ready, the fixture of one scenario Failed and
\* that of the other is Pending.
C30_Witness ==
    /\ fixtures["f1"]["TF"] = "Ready"
    /\ fixtures["s1"]["TS"] = "Failed"
    /\ fixtures["s2"]["TS"] = "Pending"

\* C31: Outcome::with_parent yields Excluded for an excluded component;
\* otherwise the parent's verdict if that is Undecided or Excluded, and
\* Skipped for every other verdict of the parent, Passed and
\* PassedWithWarnings included; it yields no other verdict.
C31_InitialVerdict ==
    stepped.done =>
        /\ stepped.started \in {Undecided, Excluded, Skipped}
        /\ stepped.excluded => stepped.started = Excluded
        /\ (~stepped.excluded /\ stepped.parent \in {Undecided, Excluded}) =>
              stepped.started = stepped.parent
        /\ (~stepped.excluded /\ stepped.parent \notin {Undecided, Excluded}) =>
              stepped.started = Skipped

\* The outcome of a step was made under a scenario that had already Passed.
C31_Witness ==
    /\ stepped.done
    /\ ~stepped.excluded
    /\ stepped.parent = Passed
    /\ stepped.started = Skipped

\* The step's implementation was called and its result set on the outcome.
ResultSet == stepped.done /\ ~skipped(stepped.parent) /\ ~failed(stepped.parent)

\* C32: set_err sets the verdict a StepError carries (fail: Failed, skip:
\* Skipped, warn: PassedWithWarnings, cancel: Canceled) and Failed for any
\* other error; set_result(Ok) sets Passed and set_result(Err(e)) does what
\* set_err(e) does.
C32_VerdictFromResult ==
    ResultSet =>
        /\ stepped.result = Ok => stepped.verdict = Passed
        /\ stepped.result = PlainErr => stepped.verdict = Failed
        /\ stepped.result = StepError(Failed) => stepped.verdict = Failed
        /\ stepped.result = skip => stepped.verdict = Skipped
        /\ stepped.result = StepError(PassedWithWarnings) => stepped.verdict = PassedWithWarnings
        /\ stepped.result = cancel => stepped.verdict = Canceled
        /\ stepped.result.step => stepped.verdict = stepped.result.v
        /\ ~stepped.result.ok => stepped.verdict = set_err(stepped.result)

\* A step returned StepError::warn() and its outcome is PassedWithWarnings.
C32_Witness ==
    /\ ResultSet
    /\ stepped.result = StepError(PassedWithWarnings)
    /\ stepped.verdict = PassedWithWarnings

\* The scopes outside a scope
OuterScopes(scope) ==
    IF scope = "Scenario" THEN {"Feature", "Global"}
    ELSE IF scope = "Feature" THEN {"Global"}
    ELSE {}

\* C33: finalize tears down only the set of the finishing context's own
\* level, and nothing for a rule; a teardown callback that asks for its own
\* scope gets WrongScope from use_fixture and None from try_fixture, and
\* reaches the set of every outer scope; the error a teardown returns is
\* set on the outcome finalize returns.
C33_TeardownOwnLevelOnly ==
    /\ fin.torn \subseteq ({fin.kind} \ {"Rule"})
    /\ (fin.stage = "done" /\ fin.kind # "Rule") => fin.torn = {fin.kind}
    /\ \A c \in fin.calls :
         /\ c.during = fin.kind
         /\ c.X = c.during =>
              c.res = (IF c.api = "use_fixture" THEN "WrongScope" ELSE "None")
         /\ c.X \in OuterScopes(c.during) => c.res = "set"
    /\ \A e \in fin.errs :
         fin.stage \in {"take", "done"} => fin.v = (IF e.step THEN e.v ELSE Failed)

\* The teardown of a scenario's set asked for a scenario fixture and for a
\* feature fixture, failed, and finalize returned a Failed outcome.
C33_Witness ==
    /\ fin.stage = "done"
    /\ fin.kind = "Scenario"
    /\ fin.torn = {"Scenario"}
    /\ [during |-> "Scenario", api |-> "use_fixture", X |-> "Scenario", res |-> "WrongScope"] \in fin.calls
    /\ [during |-> "Scenario", api |-> "try_fixture", X |-> "Feature", res |-> "set"] \in fin.calls
    /\ fin.errs = {PlainErr}
    /\ fin.v = Failed

\* The before hooks of t have completed.
BeforeDone(t) == visited[t].before = before_order(t)

\* Task u was started: its Started event was broadcast, its hooks or steps
\* ran, or its future is being polled.
WasStarted(u) ==
    \/ pc[u] # "idle"
    \/ events.started[C(u)] > 0
    \/ visited[u].before # <<>>
    \/ visited[u].after # <<>>

\* Task u has been finalized: all its steps are finished, its after hooks
\* have run and finalize has returned.
Finalized(u) ==
    /\ pc[u] = "done"
    /\ visited[u].after = after_order(u)
    /\ u \in Scenarios => \A i \in 1..StepsOf(u) : events.finished[<<u, i>>] = 1

Waiting(s) == pc[s] = "wait_pending"

\* Some task is between the insertion of Pending for the fixture s waits
\* for and its return from activate.
SetupRunning(s) ==
    \E u \in Scenarios :
        /\ pc[u] = "setup"
        /\ cur[u].T = cur[s].T
        /\ set_for(cur[u].T, u) = set_for(cur[s].T, s)

\* C35: a task waiting in activate on a Pending entry leaves the wait once
\* the task that performs the setup has left activate, whether the setup
\* succeeded, failed, panicked or was dropped; and its recv never returns
\* while the setup is still running (a waiter dropped by cancellation does
\* not return).
C35_WaiterRelease ==
    /\ \A s \in Scenarios : (Waiting(s) /\ ~SetupRunning(s)) ~> ~Waiting(s)
    /\ [][\A s \in Scenarios :
            (Waiting(s) /\ pc'[s] # "wait_pending" /\ verdict'[<<s, cur[s].i>>] # Canceled)
                => ~SetupRunning(s)]_vars

\* A waiter whose setup was abandoned before it completed: the entry is
\* still Pending and the sender is gone.
C35_Witness ==
    \E s \in Scenarios :
        /\ Waiting(s)
        /\ ~SetupRunning(s)
        /\ fixtures[set_for(cur[s].T, s)][cur[s].T] = "Pending"

\* C36: when activate returns Ok to a caller, the fixture is Ready in the
\* set at that moment and get returns Some; a caller that waited on the
\* setup of another task gets Ok only if that setup succeeded.
C36_OkImpliesReady ==
    \A k \in Callers :
        act.ret[k] = "Ok" => act.at[k] = "Ready" /\ get(act.at[k]) = "Some"

\* finalize of t is about to call FixtureSet::teardown on the set of t: the
\* after hooks are next and the context of t holds the only handle.
TeardownInvoked(t) ==
    /\ \/ t \in Scenarios /\ pc[t] = "after"
       \/ t \notin Scenarios /\ pc[t] = "run" /\ Alive(t) /\ ChildrenDone(t)
    /\ handles(t) = {t}

\* C37: whenever FixtureSet::teardown is invoked for a set, no entry of the
\* set is Pending, also in runs where callbacks fail or panic or a step is
\* abandoned by cancellation.
C37_NoPendingAtTeardown ==
    \A t \in SetIds : TeardownInvoked(t) => \A T \in Types : fixtures[t][T] # "Pending"

\* finalize is the next thing the context of t does.
AtFinalize(t) ==
    \/ t \in Scenarios /\ pc[t] = "after"
    \/ t \notin Scenarios /\ pc[t] = "run" /\ Alive(t) /\ ChildrenDone(t)

\* C38: when finalize runs for a scenario, a feature or the global context,
\* that context holds the only handle of the fixture set of its level, in
\* every interleaving: the check of exclusive access succeeds.
C38_ExclusiveAtFinalize ==
    \A t \in SetIds : AtFinalize(t) => handles(t) = {t}

\* The feature is about to finalize after both its scenarios, one of them
\* under a rule, used the feature's fixture.
C38_Witness ==
    /\ AtFinalize("f1")
    /\ fixtures["f1"]["TF"] = "Ready"
    /\ \A s \in Scenarios : "TF" \in accessed[s]
    /\ handles("f1") = {"f1"}

\* C39: no step of a scenario that is excluded, or that is not included, is
\* dispatched to the step registry, and every one of its steps finishes
\* with the verdict Excluded.
C39_ExcludedStepsNotRun ==
    \A s \in Scenarios :
        (is_excluded(s) \/ ~is_included(s)) =>
            \A i \in 1..StepsOf(s) :
                /\ stepDisp[<<s, i>>] = "no"
                /\ events.finished[<<s, i>>] > 0 => verdict[<<s, i>>] = Excluded

\* C40: when every callback terminates and the feature channel is closed,
\* every run eventually broadcasts Finished(global), and by then every
\* feature, rule and scenario task has completed.
C40_Termination ==
    /\ <>(events.finished[C(G)] > 0)
    /\ [](events.finished[C(G)] > 0 => \A t \in Tasks : pc[t] = "done")

\* A run that does not end in a panic of the runner's task finishes.
C40_TerminationUnlessPanic ==
    <>(events.finished[C(G)] > 0 \/ pc[G] = "panicked")

====
